---------------------------- MODULE Spec2Model ----------------------------
(***************************************************************************)
(* The playlist analysis handler of src/server.js                         *)
(* (GET /api/playlist/:id/analyze) together with ensureAccessToken, as a   *)
(* state machine.  Every await of the handler and of ensureAccessToken is  *)
(* a position of pc: the request in flight is the last entry of reqs, and  *)
(* an action is the code that runs without interruption from the arrival   *)
(* of what is awaited up to the next await (or up to res.json / the catch   *)
(* block).  At position "ensure" the handler awaits the promise of         *)
(* ensureAccessToken(req), which is settled already.                       *)
(*                                                                         *)
(* Values.  A JavaScript string that may be null/undefined is a string or  *)
(* Null; a number that may be absent is a natural, NoNum (undefined, or    *)
(* NaN) or NullNum (null); an object that may be null is a record or       *)
(* NullRec.  Audio-feature values                                          *)
(* are fixed-point numbers in thousandths (735 is 0.735), so that          *)
(* toFixed(3) is a rounding of a quotient of integers.  A plain JS object  *)
(* used as a dictionary is [keys, val, proto]; a count held in one is      *)
(* Num(n), or Str(s) once it is a string.                                  *)
(***************************************************************************)
EXTENDS Integers, Sequences, FiniteSets, TLC

VARIABLES
    session,        \* req.session: access_token, refresh_token, expires_in
    now,            \* Date.now()
    playlistId,     \* req.params.id
    pc,             \* position of the handler
    ensured,        \* how the promise of ensureAccessToken(req) was settled
    token,          \* const token
    playlist,       \* playlistResp.data
    tracks,         \* let tracks
    next,           \* let next
    fi,             \* loop variable i of the audio-features loop
    ai,             \* loop variable i of the artists loop
    audioFeatures,  \* const audioFeatures
    artistsMap,     \* const artistsMap
    reqs,           \* every upstream request issued so far, with its answer
    response,       \* what res.status(..).json(..) sent
    calls,          \* concurrent calls of ensureAccessToken on the session
    auth            \* the requests GET /callback and GET /logout

vars == << session, now, playlistId, pc, ensured, token, playlist, tracks, next, fi, ai,
           audioFeatures, artistsMap, reqs, response, calls, auth >>

---------------------------------------------------------------------------
(* Program constants *)

PageLimit == 100
FeatureBatch == 100
ArtistBatch == 50
TopN == 10
ExpirySkewMs == 5000
DefaultExpiresIn == 3600

(* Bounds of the model *)

MaxPages == 3          \* pages the provider serves for the small playlist
MaxLargePages == 3     \* pages the provider serves for the large playlist
NumCallers == 2        \* concurrent calls of ensureAccessToken on one session
MaxClockTicks == 2     \* milliseconds that pass between steps of the calls

---------------------------------------------------------------------------
(* JavaScript values *)

Null == "<null>"
Undefined == "<undefined>"
NoNum == 0 - 1
NullNum == 0 - 2
NullRec == [isNull |-> TRUE]

\* Boolean(x) of a string-or-null: null, undefined and "" are falsy
Truthy(x) == x # Null /\ x # Undefined /\ x # ""

\* x || 0 of a number-or-null
OrZero(x) == IF x = NoNum \/ x = NullNum THEN 0 ELSE x

\* x || d of a number-or-null: null, undefined and 0 are falsy
OrDefault(x, d) == IF x = NoNum \/ x = NullNum \/ x = 0 THEN d ELSE x

\* x || y of two strings-or-null
OrElse(x, y) == IF Truthy(x) THEN x ELSE y

\* the property key a value is converted to
PropKey(x) == IF x = Null THEN "null" ELSE IF x = Undefined THEN "undefined" ELSE x

\* a value that is a number or a string: a count that `+ 1` has made a string
Num(n) == [num |-> n]
Str(s) == [str |-> s]
IsNum(v) == "num" \in DOMAIN v

Min(a, b) == IF a < b THEN a ELSE b

\* mutant: the slice takes one element more
SliceWide(s, from, to) == SubSeq(s, from + 1, Min(to + 1, Len(s)))

\* Array.prototype.slice(from, to) with 0-based, end-exclusive positions
Slice(s, from, to) == SubSeq(s, from + 1, Min(to, Len(s)))

\* Array.prototype.join: a null or undefined element is joined as ""
JoinElem(x) == IF x = Null \/ x = Undefined THEN "" ELSE x

RECURSIVE JoinRange(_, _, _, _)
JoinRange(s, sep, lo, hi) ==
    IF lo > hi THEN ""
    ELSE IF lo = hi THEN JoinElem(s[lo])
    ELSE LET mid == (lo + hi) \div 2
         IN  JoinRange(s, sep, lo, mid) \o sep \o JoinRange(s, sep, mid + 1, hi)

Join(s, sep) == JoinRange(s, sep, 1, Len(s))

\* the characters a..b of a string, "" outside of it
Sub(str, a, b) == IF a >= 1 /\ b <= Len(str) THEN SubSeq(str, a, b) ELSE ""

Digits == "0123456789"

IsDigit(c) == \E d \in 1..10 : SubSeq(Digits, d, d) = c

DigitValue(c) == (CHOOSE d \in 1..10 : SubSeq(Digits, d, d) = c) - 1

---------------------------------------------------------------------------
(* A plain object ({}) used as a dictionary: its own keys in insertion     *)
(* order, the key-to-value function, and the object that an assignment to  *)
(* __proto__ has made its prototype (NullRec while it is Object.prototype). *)
(* Its own keys are enumerated with the array indices first, in ascending  *)
(* numeric order, and the other keys after them in insertion order.  A     *)
(* lookup that finds no own property goes on along the prototype chain.    *)

EmptyObj == [keys |-> << >>, val |-> << >>, proto |-> NullRec]

\* the largest array index, 2^32 - 2
MaxArrayIndex == "4294967294"

\* a < b for two strings of digits of the same length
DigitsLess(a, b) ==
    \E i \in 1..Len(a) :
       /\ DigitValue(SubSeq(a, i, i)) < DigitValue(SubSeq(b, i, i))
       /\ \A j \in 1..(i - 1) : SubSeq(a, j, j) = SubSeq(b, j, j)

\* a < b for the numbers that two canonical strings of digits denote
IndexLess(a, b) == Len(a) < Len(b) \/ (Len(a) = Len(b) /\ DigitsLess(a, b))

\* k is an array index: the canonical decimal string of an integer of
\* 0 .. 2^32 - 2
IsIndexKey(k) ==
    /\ Len(k) >= 1
    /\ Len(k) <= Len(MaxArrayIndex)
    /\ \A i \in 1..Len(k) : IsDigit(SubSeq(k, i, i))
    /\ Len(k) > 1 => SubSeq(k, 1, 1) # "0"
    /\ Len(k) = Len(MaxArrayIndex) => ~DigitsLess(MaxArrayIndex, k)

\* the properties every object inherits from Object.prototype
ProtoKeys ==
    { "constructor", "__defineGetter__", "__defineSetter__", "hasOwnProperty",
      "__lookupGetter__", "__lookupSetter__", "isPrototypeOf", "propertyIsEnumerable",
      "toString", "valueOf", "__proto__", "toLocaleString" }

\* String(v) of the value inherited under key k: a native function, and
\* under __proto__ the prototype object
ProtoString(k) ==
    IF k = "__proto__" THEN "[object Object]"
    ELSE IF k = "constructor" THEN "function Object() { [native code] }"
    ELSE "function " \o k \o "() { [native code] }"

\* the properties of the records that hold numbers, and those that hold lists
NumberProps ==
    { "danceability", "energy", "valence", "tempo", "acousticness", "instrumentalness",
      "liveness", "speechiness", "popularity", "duration_ms" }

ListProps == { "genres", "artists", "images" }

\* Boolean(r[k]) of a property of a record
PropTruthy(r, k) ==
    IF k \in NumberProps THEN r[k] # NoNum /\ r[k] # NullNum /\ r[k] # 0
    ELSE IF k \in ListProps THEN TRUE
    ELSE Truthy(r[k])

ObjHas(o, k) == k \in DOMAIN o.val

\* o[k]: the own property, or what the prototype chain holds under k: the
\* prototype itself under __proto__, a property of the prototype that an
\* assignment to __proto__ has set, a property of Object.prototype, or
\* undefined
ObjGet(o, k) ==
    IF ObjHas(o, k) THEN [kind |-> "own", val |-> o.val[k]]
    ELSE IF k = "__proto__" /\ o.proto # NullRec THEN [kind |-> "own", val |-> o.proto]
    ELSE IF o.proto # NullRec /\ k \in DOMAIN o.proto
    THEN [kind |-> "property", truthy |-> PropTruthy(o.proto, k)]
    ELSE IF k \in ProtoKeys THEN [kind |-> "inherited", key |-> k]
    ELSE [kind |-> "undefined"]

\* o[k] = v
ObjPut(o, k, v) ==
    IF ObjHas(o, k)
    THEN [o EXCEPT !.val[k] = v]
    ELSE [o EXCEPT !.keys = Append(@, k), !.val = @ @@ (k :> v)]

\* o[k] = v of a number or a string v: the setter of __proto__ ignores it
ObjSet(o, k, v) == IF k = "__proto__" THEN o ELSE ObjPut(o, k, v)

\* o[k] = r of an object r: the setter of __proto__ makes r the prototype
ObjSetObject(o, k, r) == IF k = "__proto__" THEN [o EXCEPT !.proto = r] ELSE ObjPut(o, k, r)

\* Object.keys(o): the own keys in enumeration order
OwnKeys(o) ==
    LET idx == { k \in DOMAIN o.val : IsIndexKey(k) }
        asc == [i \in 1..Cardinality(idx) |->
                   CHOOSE k \in idx : Cardinality({ j \in idx : IndexLess(j, k) }) = i - 1]
    IN  asc \o SelectSeq(o.keys, LAMBDA k : k \notin idx)

\* Object.entries(o) and Object.values(o)
ObjEntries(o) == LET ks == OwnKeys(o) IN [i \in 1..Len(ks) |-> << ks[i], o.val[ks[i]] >>]

ObjValues(o) == LET ks == OwnKeys(o) IN [i \in 1..Len(ks) |-> o.val[ks[i]]]

\* Array.prototype.forEach over s[lo..hi] with loop state acc; the loop
\* state carries threw, set when the callback throws, which ends the loop
RECURSIVE ForEach(_, _, _, _, _)
ForEach(Body(_, _), acc, s, lo, hi) ==
    IF lo > hi \/ acc.threw THEN acc
    ELSE IF lo = hi THEN Body(acc, s[lo])
    ELSE LET mid  == (lo + hi) \div 2
             left == ForEach(Body, acc, s, lo, mid)
         IN  IF left.threw THEN left ELSE ForEach(Body, left, s, mid + 1, hi)

\* the comparator (a, b) => key(b) - key(a) as the sort calls it on the keys
\* of two elements: a difference that is NaN counts as 0
CallCompare(ka, kb) == IF IsNum(ka) /\ IsNum(kb) THEN kb.num - ka.num ELSE 0

\* kMinGallopWins of the sort: the wins in a row from which a merge gallops
MinGallopWins == 7

\* array[index] = value; the indexes of the sort count from 0
Store(array, index, value) == [array EXCEPT ![index + 1] = value]

\* Copy(source, srcPos, target, dstPos, length) of the sort
Copy(source, srcPos, target, dstPos, length) ==
    SubSeq(target, 1, dstPos) \o SubSeq(source, srcPos + 1, srcPos + length)
      \o SubSeq(target, dstPos + length + 1, Len(target))

\* ReverseRange(array, from, to)
ReverseRange(array, from, to) ==
    LET RECURSIVE Reversed(_, _)
        Reversed(lo, hi) ==
            IF lo > hi THEN << >>
            ELSE IF lo = hi THEN << array[lo] >>
            ELSE Reversed(((lo + hi) \div 2) + 1, hi) \o Reversed(lo, (lo + hi) \div 2)
    IN  SubSeq(array, 1, from) \o Reversed(from + 1, to)
          \o SubSeq(array, to + 1, Len(array))

\* ComputeMinRunLength(n), r being 0 at the call: the length to which short
\* runs are extended, the whole array when it has fewer than 64 elements
RECURSIVE ComputeMinRunLength(_, _)
ComputeMinRunLength(n, r) ==
    IF n >= 64 THEN ComputeMinRunLength(n \div 2, IF n % 2 = 1 THEN 1 ELSE r)
    ELSE n + r

\* the run the sort finds in work[lowArg, high): its length, and the array
\* after the run, when it is strictly descending under the comparator, was
\* reversed.  work lists positions of keys.
CountAndMakeRun(keys, work, lowArg, high) ==
    LET low  == lowArg + 1
        Key(idx) == keys[work[idx + 1]]
        desc == low < high /\ CallCompare(Key(low), Key(low - 1)) < 0
        ends == { idx \in (low + 1)..(high - 1) :
                    IF desc THEN CallCompare(Key(idx), Key(idx - 1)) >= 0
                            ELSE CallCompare(Key(idx), Key(idx - 1)) < 0 }
        len  == IF low = high THEN 1
                ELSE IF ends = {} THEN high - lowArg
                ELSE (CHOOSE i \in ends : \A j \in ends : i <= j) - lowArg
    IN  [length |-> len,
         work |-> IF desc THEN ReverseRange(work, lowArg, lowArg + len) ELSE work]

\* the binary search of the insertion: the index, counted from the start of
\* the sorted run, at which the element at position pivot is inserted
RECURSIVE BinarySearch(_, _, _, _, _)
BinarySearch(keys, run, pivot, left, right) ==
    IF left >= right THEN left
    ELSE LET mid == left + ((right - left) \div 2)
         IN  IF CallCompare(keys[pivot], keys[run[mid + 1]]) < 0
             THEN BinarySearch(keys, run, pivot, left, mid)
             ELSE BinarySearch(keys, run, pivot, mid + 1, right)

\* mutant: an element is put in front of the elements of equal key
SortInsertBeforeEqual(keys, acc, i) ==
    LET p == Cardinality({ k \in 1..Len(acc.out) :
                              CallCompare(keys[acc.out[k]], keys[i]) < 0 })
    IN  [acc EXCEPT !.out = SubSeq(@, 1, p) \o << i >> \o SubSeq(@, p + 1, Len(@))]

\* one step of the binary insertion sort: the element at position i is
\* inserted into the sorted run acc.out
SortInsert(keys, acc, i) ==
    LET p == BinarySearch(keys, acc.out, i, 0, Len(acc.out))
    IN  [acc EXCEPT !.out = SubSeq(@, 1, p) \o << i >> \o SubSeq(@, p + 1, Len(@))]

\* BinaryInsertionSort(low, startArg, high): work[low, start) is sorted, the
\* elements of work[start, high) are inserted into it one by one
BinaryInsertionSort(keys, work, low, startArg, high) ==
    LET start == IF low = startArg THEN startArg + 1 ELSE startArg
        run   == ForEach(LAMBDA acc, i : SortInsert(keys, acc, i),
                         [threw |-> FALSE, out |-> SubSeq(work, low + 1, start)],
                         work, start + 1, high).out
    IN  SubSeq(work, 1, low) \o run \o SubSeq(work, high + 1, Len(work))

\* GallopLeft(array, key, base, length, hint): the number of elements of
\* array[base, base + length) that the search finds before the key, the key
\* going before elements it compares equal to.  From the hint the offset is
\* doubled, upwards while the element is before the key, downwards while it
\* is not; a binary search between the last two offsets ends it.
GallopLeft(keys, array, key, base, length, hint) ==
    LET Before(idx) == CallCompare(keys[array[idx + 1]], key) < 0
        up     == Before(base + hint)
        maxOfs == IF up THEN length - hint ELSE hint + 1
        RECURSIVE Offsets(_, _)
        Offsets(lastOfs, offset) ==
            IF offset < maxOfs
                 /\ (IF up THEN Before(base + hint + offset)
                           ELSE ~Before(base + hint - offset))
            THEN Offsets(offset, (offset * 2) + 1)
            ELSE [lastOfs |-> lastOfs, offset |-> Min(offset, maxOfs)]
        RECURSIVE Search(_, _)
        Search(lastOfs, offset) ==
            IF lastOfs >= offset THEN offset
            ELSE IF Before(base + lastOfs + ((offset - lastOfs) \div 2))
            THEN Search(lastOfs + ((offset - lastOfs) \div 2) + 1, offset)
            ELSE Search(lastOfs, lastOfs + ((offset - lastOfs) \div 2))
        Between(g) ==
            Search((IF up THEN g.lastOfs + hint ELSE hint - g.offset) + 1,
                   IF up THEN g.offset + hint ELSE hint - g.lastOfs)
    IN  Between(Offsets(0, 1))

\* GallopRight(array, key, base, length, hint): as GallopLeft, the key going
\* behind elements it compares equal to
GallopRight(keys, array, key, base, length, hint) ==
    LET KeyBefore(idx) == CallCompare(key, keys[array[idx + 1]]) < 0
        up     == ~KeyBefore(base + hint)
        maxOfs == IF up THEN length - hint ELSE hint + 1
        RECURSIVE Offsets(_, _)
        Offsets(lastOfs, offset) ==
            IF offset < maxOfs
                 /\ (IF up THEN ~KeyBefore(base + hint + offset)
                           ELSE KeyBefore(base + hint - offset))
            THEN Offsets(offset, (offset * 2) + 1)
            ELSE [lastOfs |-> lastOfs, offset |-> Min(offset, maxOfs)]
        RECURSIVE Search(_, _)
        Search(lastOfs, offset) ==
            IF lastOfs >= offset THEN offset
            ELSE IF KeyBefore(base + lastOfs + ((offset - lastOfs) \div 2))
            THEN Search(lastOfs, lastOfs + ((offset - lastOfs) \div 2))
            ELSE Search(lastOfs + ((offset - lastOfs) \div 2) + 1, offset)
        Between(g) ==
            Search((IF up THEN g.lastOfs + hint ELSE hint - g.offset) + 1,
                   IF up THEN g.offset + hint ELSE hint - g.lastOfs)
    IN  Between(Offsets(0, 1))

\* MergeLow up to its loops.  The state of a merge: the work array, the
\* temporary copy of the shorter run, the cursors and lengths left, the
\* local minGallop and sortState.minGallop, the wins in a row, the flag of
\* the galloping loop, and where the merge is: in the loop that takes one
\* element at a time, in the galloping loop, at a label, or done.
MergeLowEnter(work, minGallop, baseA, lengthA, baseB, lengthB) ==
    [low |-> TRUE,
     work |-> Store(work, baseA, work[baseB + 1]),
     temp |-> SubSeq(work, baseA + 1, baseA + lengthA),
     baseA |-> baseA, dest |-> baseA + 1, cursorTemp |-> 0, cursor |-> baseB + 1,
     lengthA |-> lengthA, lengthB |-> lengthB - 1,
     minGallop |-> minGallop, stored |-> minGallop,
     nofWinsA |-> 0, nofWinsB |-> 0, firstIteration |-> FALSE,
     at |-> IF lengthB - 1 = 0 THEN "Succeed" ELSE IF lengthA = 1 THEN "Copy"
            ELSE "pairwise"]

\* one pass of the loop of MergeLow that takes one element at a time
MergeLowPairwise(keys, m) ==
    IF CallCompare(keys[m.work[m.cursor + 1]], keys[m.temp[m.cursorTemp + 1]]) < 0
    THEN LET b == [m EXCEPT !.work = Store(m.work, m.dest, m.work[m.cursor + 1]),
                            !.dest = @ + 1, !.cursor = @ + 1, !.nofWinsB = @ + 1,
                            !.lengthB = @ - 1, !.nofWinsA = 0]
         IN  IF b.lengthB = 0 THEN [b EXCEPT !.at = "Succeed"]
             ELSE IF b.nofWinsB >= b.minGallop
             THEN [b EXCEPT !.at = "gallop", !.minGallop = @ + 1, !.firstIteration = TRUE]
             ELSE b
    ELSE LET a == [m EXCEPT !.work = Store(m.work, m.dest, m.temp[m.cursorTemp + 1]),
                            !.dest = @ + 1, !.cursorTemp = @ + 1, !.nofWinsA = @ + 1,
                            !.lengthA = @ - 1, !.nofWinsB = 0]
         IN  IF a.lengthA = 1 THEN [a EXCEPT !.at = "Copy"]
             ELSE IF a.nofWinsA >= a.minGallop
             THEN [a EXCEPT !.at = "gallop", !.minGallop = @ + 1, !.firstIteration = TRUE]
             ELSE a

\* the end of a galloping loop: back to the loop that takes one element at a
\* time, with minGallop raised
MergeLeaveGallop(m) ==
    [m EXCEPT !.minGallop = @ + 1, !.stored = m.minGallop + 1,
              !.nofWinsA = 0, !.nofWinsB = 0, !.at = "pairwise"]

\* one pass of the galloping loop of MergeLow: the winsA elements of run A
\* that go before the first element left of run B are copied and that
\* element of run B is taken; then the winsB elements of run B that go
\* before the first element left of run A are moved and that element of run
\* A is taken
MergeLowGallop(keys, m) ==
    LET TakeA(c) ==
            LET d == [c EXCEPT !.work = Store(c.work, c.dest, c.temp[c.cursorTemp + 1]),
                               !.dest = @ + 1, !.cursorTemp = @ + 1, !.lengthA = @ - 1]
            IN  IF d.lengthA = 1 THEN [d EXCEPT !.at = "Copy"] ELSE d
        MoveB(b, winsB) ==
            LET c == [b EXCEPT !.nofWinsB = winsB,
                               !.work = Copy(b.work, b.cursor, b.work, b.dest, winsB),
                               !.dest = @ + winsB, !.cursor = @ + winsB,
                               !.lengthB = @ - winsB]
            IN  IF winsB > 0 /\ c.lengthB = 0 THEN [c EXCEPT !.at = "Succeed"]
                ELSE TakeA(c)
        TakeB(a) ==
            LET b == [a EXCEPT !.work = Store(a.work, a.dest, a.work[a.cursor + 1]),
                               !.dest = @ + 1, !.cursor = @ + 1, !.lengthB = @ - 1]
            IN  IF b.lengthB = 0 THEN [b EXCEPT !.at = "Succeed"]
                ELSE MoveB(b, GallopLeft(keys, b.work, keys[b.temp[b.cursorTemp + 1]],
                                         b.cursor, b.lengthB, 0))
        CopyA(winsA) ==
            LET minGallop == IF m.minGallop - 1 > 1 THEN m.minGallop - 1 ELSE 1
                a == [m EXCEPT !.firstIteration = FALSE, !.minGallop = minGallop,
                               !.stored = minGallop, !.nofWinsA = winsA,
                               !.work = Copy(m.temp, m.cursorTemp, m.work, m.dest, winsA),
                               !.dest = @ + winsA, !.cursorTemp = @ + winsA,
                               !.lengthA = @ - winsA]
            IN  IF winsA > 0 /\ a.lengthA = 1 THEN [a EXCEPT !.at = "Copy"]
                ELSE IF winsA > 0 /\ a.lengthA = 0 THEN [a EXCEPT !.at = "Succeed"]
                ELSE TakeB(a)
    IN  IF ~(m.nofWinsA >= MinGallopWins \/ m.nofWinsB >= MinGallopWins
               \/ m.firstIteration)
        THEN MergeLeaveGallop(m)
        ELSE CopyA(GallopRight(keys, m.temp, keys[m.work[m.cursor + 1]],
                               m.cursorTemp, m.lengthA, 0))

\* the labels Succeed and CopyB of MergeLow
MergeLowLabel(m) ==
    IF m.at = "Succeed"
    THEN [m EXCEPT !.work = IF m.lengthA > 0
                            THEN Copy(m.temp, m.cursorTemp, m.work, m.dest, m.lengthA)
                            ELSE m.work,
                   !.at = "done"]
    ELSE [m EXCEPT !.work = Store(Copy(m.work, m.cursor, m.work, m.dest, m.lengthB),
                                  m.dest + m.lengthB, m.temp[m.cursorTemp + 1]),
                   !.at = "done"]

\* MergeHigh up to its loops: it merges from the end, the temporary array
\* holding run B
MergeHighEnter(work, minGallop, baseA, lengthA, baseB, lengthB) ==
    [low |-> FALSE,
     work |-> Store(work, baseB + lengthB - 1, work[baseA + lengthA]),
     temp |-> SubSeq(work, baseB + 1, baseB + lengthB),
     baseA |-> baseA, dest |-> baseB + lengthB - 2, cursorTemp |-> lengthB - 1,
     cursor |-> baseA + lengthA - 2,
     lengthA |-> lengthA - 1, lengthB |-> lengthB,
     minGallop |-> minGallop, stored |-> minGallop,
     nofWinsA |-> 0, nofWinsB |-> 0, firstIteration |-> FALSE,
     at |-> IF lengthA - 1 = 0 THEN "Succeed" ELSE IF lengthB = 1 THEN "Copy"
            ELSE "pairwise"]

\* one pass of the loop of MergeHigh that takes one element at a time
MergeHighPairwise(keys, m) ==
    IF CallCompare(keys[m.temp[m.cursorTemp + 1]], keys[m.work[m.cursor + 1]]) < 0
    THEN LET a == [m EXCEPT !.work = Store(m.work, m.dest, m.work[m.cursor + 1]),
                            !.dest = @ - 1, !.cursor = @ - 1, !.nofWinsA = @ + 1,
                            !.lengthA = @ - 1, !.nofWinsB = 0]
         IN  IF a.lengthA = 0 THEN [a EXCEPT !.at = "Succeed"]
             ELSE IF a.nofWinsA >= a.minGallop
             THEN [a EXCEPT !.at = "gallop", !.minGallop = @ + 1, !.firstIteration = TRUE]
             ELSE a
    ELSE LET b == [m EXCEPT !.work = Store(m.work, m.dest, m.temp[m.cursorTemp + 1]),
                            !.dest = @ - 1, !.cursorTemp = @ - 1, !.nofWinsB = @ + 1,
                            !.lengthB = @ - 1, !.nofWinsA = 0]
         IN  IF b.lengthB = 1 THEN [b EXCEPT !.at = "Copy"]
             ELSE IF b.nofWinsB >= b.minGallop
             THEN [b EXCEPT !.at = "gallop", !.minGallop = @ + 1, !.firstIteration = TRUE]
             ELSE b

\* one pass of the galloping loop of MergeHigh: the winsA elements of run A
\* that go behind the last element left of run B are moved and that element
\* of run B is taken; then the winsB elements of run B that go behind the
\* last element left of run A are copied and that element of run A is taken
MergeHighGallop(keys, m) ==
    LET TakeA(c) ==
            LET d == [c EXCEPT !.work = Store(c.work, c.dest, c.work[c.cursor + 1]),
                               !.dest = @ - 1, !.cursor = @ - 1, !.lengthA = @ - 1]
            IN  IF d.lengthA = 0 THEN [d EXCEPT !.at = "Succeed"] ELSE d
        CopyB(b, winsB) ==
            LET c == [b EXCEPT !.nofWinsB = winsB,
                               !.work = Copy(b.temp, b.cursorTemp - winsB + 1, b.work,
                                             b.dest - winsB + 1, winsB),
                               !.dest = @ - winsB, !.cursorTemp = @ - winsB,
                               !.lengthB = @ - winsB]
            IN  IF winsB > 0 /\ c.lengthB = 1 THEN [c EXCEPT !.at = "Copy"]
                ELSE IF winsB > 0 /\ c.lengthB = 0 THEN [c EXCEPT !.at = "Succeed"]
                ELSE TakeA(c)
        TakeB(a) ==
            LET b == [a EXCEPT !.work = Store(a.work, a.dest, a.temp[a.cursorTemp + 1]),
                               !.dest = @ - 1, !.cursorTemp = @ - 1, !.lengthB = @ - 1]
            IN  IF b.lengthB = 1 THEN [b EXCEPT !.at = "Copy"]
                ELSE CopyB(b, b.lengthB
                                - GallopLeft(keys, b.temp, keys[b.work[b.cursor + 1]],
                                             0, b.lengthB, b.lengthB - 1))
        MoveA(winsA) ==
            LET minGallop == IF m.minGallop - 1 > 1 THEN m.minGallop - 1 ELSE 1
                a == [m EXCEPT !.firstIteration = FALSE, !.minGallop = minGallop,
                               !.stored = minGallop, !.nofWinsA = winsA,
                               !.work = Copy(m.work, m.cursor - winsA + 1, m.work,
                                             m.dest - winsA + 1, winsA),
                               !.dest = @ - winsA, !.cursor = @ - winsA,
                               !.lengthA = @ - winsA]
            IN  IF winsA > 0 /\ a.lengthA = 0 THEN [a EXCEPT !.at = "Succeed"]
                ELSE TakeB(a)
    IN  IF ~(m.nofWinsA >= MinGallopWins \/ m.nofWinsB >= MinGallopWins
               \/ m.firstIteration)
        THEN MergeLeaveGallop(m)
        ELSE MoveA(m.lengthA
                     - GallopRight(keys, m.work, keys[m.temp[m.cursorTemp + 1]],
                                   m.baseA, m.lengthA, m.lengthA - 1))

\* the labels Succeed and CopyA of MergeHigh
MergeHighLabel(m) ==
    IF m.at = "Succeed"
    THEN [m EXCEPT !.work = IF m.lengthB > 0
                            THEN Copy(m.temp, 0, m.work, m.dest - (m.lengthB - 1),
                                      m.lengthB)
                            ELSE m.work,
                   !.at = "done"]
    ELSE [m EXCEPT !.work = Store(Copy(m.work, m.cursor - m.lengthA + 1, m.work,
                                       m.dest - m.lengthA + 1, m.lengthA),
                                  m.dest - m.lengthA, m.temp[m.cursorTemp + 1]),
                   !.at = "done"]

\* a merge goes on by one pass of a loop, or by a label
MergeStep(keys, m) ==
    IF m.at = "pairwise"
    THEN IF m.low THEN MergeLowPairwise(keys, m) ELSE MergeHighPairwise(keys, m)
    ELSE IF m.at = "gallop"
    THEN IF m.low THEN MergeLowGallop(keys, m) ELSE MergeHighGallop(keys, m)
    ELSE IF m.low THEN MergeLowLabel(m) ELSE MergeHighLabel(m)

\* up to 2^k passes of a merge
RECURSIVE MergeSteps(_, _, _)
MergeSteps(keys, m, k) ==
    IF m.at = "done" THEN m
    ELSE IF k = 0 THEN MergeStep(keys, m)
    ELSE MergeSteps(keys, MergeSteps(keys, m, k - 1), k - 1)

\* a merge from its loops to its end
RECURSIVE MergeLoop(_, _)
MergeLoop(keys, m) == IF m.at = "done" THEN m ELSE MergeLoop(keys, MergeSteps(keys, m, 6))

\* MergeAt(i): the pending runs i and i + 1 (counted from 0) are merged: the
\* first k elements of run A are in place, and so are the elements of run B
\* behind its first lengthB; the rest is merged by MergeLow when what is
\* left of run A is the shorter part, by MergeHigh otherwise.  The state of
\* the sort: the work array, the stack of pending runs and minGallop.
MergeAt(keys, ss, i) ==
    LET runA == ss.runs[i + 1]
        runB == ss.runs[i + 2]
        runs == SubSeq(ss.runs, 1, i)
                  \o << [base |-> runA.base, length |-> runA.length + runB.length] >>
                  \o SubSeq(ss.runs, i + 3, Len(ss.runs))
        k == GallopRight(keys, ss.work, keys[ss.work[runB.base + 1]],
                         runA.base, runA.length, 0)
        lengthB == GallopLeft(keys, ss.work, keys[ss.work[runA.base + runA.length]],
                              runB.base, runB.length, runB.length - 1)
        Merged(m) == [work |-> m.work, runs |-> runs, minGallop |-> m.stored]
    IN  IF runA.length - k = 0 \/ lengthB = 0 THEN [ss EXCEPT !.runs = runs]
        ELSE Merged(MergeLoop(keys,
                IF runA.length - k <= lengthB
                THEN MergeLowEnter(ss.work, ss.minGallop, runA.base + k,
                                   runA.length - k, runB.base, lengthB)
                ELSE MergeHighEnter(ss.work, ss.minGallop, runA.base + k,
                                    runA.length - k, runB.base, lengthB)))

\* RunInvariantEstablished(pendingRuns, n), n counted from 0
RunInvariantEstablished(runs, n) ==
    n < 2 \/ runs[n - 1].length > runs[n].length + runs[n + 1].length

\* MergeCollapse: pending runs are merged until the lengths on the stack
\* decrease fast enough
RECURSIVE MergeCollapse(_, _)
MergeCollapse(keys, ss) ==
    IF Len(ss.runs) <= 1 THEN ss
    ELSE LET n == Len(ss.runs) - 2
         IN  IF ~RunInvariantEstablished(ss.runs, n + 1)
                  \/ ~RunInvariantEstablished(ss.runs, n)
             THEN MergeCollapse(keys,
                     MergeAt(keys, ss,
                             IF ss.runs[n].length < ss.runs[n + 2].length
                             THEN n - 1 ELSE n))
             ELSE IF ss.runs[n + 1].length <= ss.runs[n + 2].length
             THEN MergeCollapse(keys, MergeAt(keys, ss, n))
             ELSE ss

\* MergeForceCollapse: all pending runs are merged
RECURSIVE MergeForceCollapse(_, _)
MergeForceCollapse(keys, ss) ==
    IF Len(ss.runs) <= 1 THEN ss
    ELSE LET n == Len(ss.runs) - 2
         IN  MergeForceCollapse(keys,
                MergeAt(keys, ss,
                        IF n > 0 /\ ss.runs[n].length < ss.runs[n + 2].length
                        THEN n - 1 ELSE n))

\* the loop of ArrayTimSortImpl over work[low, low + remaining): the next
\* run is found, extended to the minimal run length by binary insertion,
\* pushed, and the stack collapsed
RECURSIVE TimSortRuns(_, _, _, _, _)
TimSortRuns(keys, ss, low, remaining, minRunLength) ==
    IF remaining = 0 THEN ss
    ELSE LET run    == CountAndMakeRun(keys, ss.work, low, low + remaining)
             short  == run.length < minRunLength
             length == IF short THEN Min(minRunLength, remaining) ELSE run.length
             work   == IF short
                       THEN BinaryInsertionSort(keys, run.work, low, low + run.length,
                                                low + length)
                       ELSE run.work
             pushed == [ss EXCEPT !.work = work,
                                  !.runs = Append(@, [base |-> low, length |-> length])]
         IN  TimSortRuns(keys, MergeCollapse(keys, pushed), low + length,
                         remaining - length, minRunLength)

\* Array.prototype.sort((a, b) => key(b) - key(a)) as V8 sorts an array
\* (ArrayTimSortImpl): runs are found, short ones extended by binary
\* insertion, and pending runs merged, galloping included.  An array of
\* fewer than 64 elements is one run.  keys[i] is the key of the i-th
\* element, the result lists the positions in sorted order.  With keys that
\* are all numbers this is the stable sort by descending key; with a key
\* that is no number the order is the one these comparisons give.
SortDescending(keys) ==
    LET n == Len(keys)
        ss == [work |-> SubSeq([i \in 1..n |-> i], 1, n), runs |-> << >>,
               minGallop |-> MinGallopWins]
    IN  IF n < 2 THEN ss.work
        ELSE MergeForceCollapse(keys,
                TimSortRuns(keys, ss, 0, n, ComputeMinRunLength(n, 0))).work

---------------------------------------------------------------------------
(* The provider's data: what the upstream API answers.  Two playlists are  *)
(* served: a small one, whose pages the provider draws from SmallPages,    *)
(* and a large one, served in full pages of PageLimit items and a shorter  *)
(* last page.                                                              *)

FeatureKeys == << "danceability", "energy", "valence", "tempo",
                  "acousticness", "instrumentalness", "liveness", "speechiness" >>

ArtistRef(id, name) == [id |-> id, name |-> name]

Track(id, name, duration, popularity, artists) ==
    [id |-> id, name |-> name, duration_ms |-> duration, popularity |-> popularity,
     hasArtists |-> TRUE, artists |-> artists]

\* a track object without an artists property
TrackNoArtists(id, name, duration, popularity) ==
    [id |-> id, name |-> name, duration_ms |-> duration, popularity |-> popularity,
     hasArtists |-> FALSE, artists |-> << >>]

Item(t) == [track |-> t]
NullItem == [track |-> NullRec]

Ann    == ArtistRef("a1", "Ann")
Bob    == ArtistRef("a2", "Bob")
NoName == ArtistRef("a3", Null)
NoId   == ArtistRef(Null, "Loc")
Seven  == ArtistRef("a7", "7")
Gone   == ArtistRef("a9", "Gone")
Ctor   == ArtistRef("a4", "constructor")

T1 == Track("t1", "Alpha", 1800500, 50, << Ann >>)
T2 == Track("t2", "Beta", 1800700, 80, << Ann, Bob >>)
T3 == Track(Null, "Local", NoNum, NullNum, << NoId >>)
T4 == Track("t4", "Delta", 59999, 50, << NoName, Seven >>)
T5 == Track("t5", "Eps", 1000, 10, << Gone >>)
T6 == TrackNoArtists("t6", "Zeta", 2000, 20)
T7 == Track("t7", "Eta", 3000, 30, << Ann >>)
T8 == Track("t8", "Theta", 4000, 40, << Bob >>)
T9 == Track("t9", "Iota", 5000, 60, << Ctor >>)

SmallPages ==
    { << Item(T1), NullItem, Item(T2) >>,
      << Item(T3), Item(T1) >>,
      << >>,
      << Item(T4) >>,
      << Item(T5) >>,
      << Item(T6) >>,
      << Item(T1), Item(T7), Item(T8) >>,
      << Item(T7), Item(T9), Item(T8), Item(T8) >> }

BulkCount == PageLimit * (MaxLargePages + 1)

BulkId(i) == "b" \o ToString(i)
BulkArtistId(k) == "ar" \o ToString(k)
BulkArtistOf(i) == ((i - 1) % 120) + 1

BulkTrack(i) ==
    Track(BulkId(i), "Bulk " \o ToString(i), 30000 + 7 * i, (i * 37) % 101,
          << ArtistRef(BulkArtistId(BulkArtistOf(i)),
                       "Artist " \o ToString(BulkArtistOf(i))) >>)

BulkTracks == [i \in 1..BulkCount |-> BulkTrack(i)]

\* page k (1-based) of the large playlist, n items long
LargePage(k, n) == [j \in 1..n |-> Item(BulkTracks[PageLimit * (k - 1) + j])]

Features(id, d, e, v, t, a, i, l, s) ==
    [id |-> id, danceability |-> d, energy |-> e, valence |-> v, tempo |-> t,
     acousticness |-> a, instrumentalness |-> i, liveness |-> l, speechiness |-> s]

BulkFeatures(i) ==
    Features(BulkId(i), (i * 131) % 1000, (i * 17) % 1000, (i * 7) % 1000,
             60000 + ((i * 977) % 120000), (i * 3) % 1000, i % 2, (i * 11) % 1000,
             (i * 13) % 1000)

\* GET /v1/audio-features: the record of an id, null for an id it cannot resolve
FeatureCatalog ==
    ("t1" :> Features("t1", 735, 500, 250, 120032, 10, 0, 333, 40))
    @@ ("t4" :> Features("t4", 499, 504, 998, NoNum, 14, 1000, 337, NullNum))
    @@ ("t5" :> Features("t5", 100, 200, 300, 90000, 400, 500, 600, 700))
    @@ ("t6" :> Features("t6", 100, 200, 300, 90000, 400, 500, 600, 700))
    @@ [id \in { BulkId(i) : i \in { j \in 1..BulkCount : j % 10 # 0 } } |->
           BulkFeatures(CHOOSE i \in 1..BulkCount : BulkTracks[i].id = id)]

FeaturesOf(id) == IF id \in DOMAIN FeatureCatalog THEN FeatureCatalog[id] ELSE NullRec

Artist(id, name, genres, popularity) ==
    [id |-> id, name |-> name, genres |-> genres, popularity |-> popularity]

BulkGenres(k) ==
    IF k % 3 = 0 THEN << "rock", "pop" >>
    ELSE IF k % 3 = 1 THEN << "pop", "genre " \o ToString(k % 13) >>
    ELSE << >>

\* GET /v1/artists: the record of an id, null for an id it cannot resolve
ArtistCatalog ==
    ("a1" :> Artist("a1", "Ann", << "pop", "indie" >>, 70))
    @@ ("a2" :> Artist("a2", "Bob", << "pop" >>, 60))
    @@ ("a3" :> Artist("a3", "Cy", << >>, 50))
    @@ ("a4" :> Artist("a4", "constructor", << "pop" >>, 30))
    @@ ("a7" :> Artist("a7", "7", << "rock", "80", "indie" >>, 40))
    @@ [id \in { BulkArtistId(k) : k \in 1..120 } |->
           LET k == CHOOSE j \in 1..120 : BulkArtistId(j) = id
           IN  Artist(id, "Artist " \o ToString(k), BulkGenres(k), k % 101)]

ArtistOf(id) == IF id \in DOMAIN ArtistCatalog THEN ArtistCatalog[id] ELSE NullRec

\* GET /v1/playlists/{id}
SmallPlaylist ==
    [id |-> "small", name |-> "Mix",
     owner |-> [display_name |-> "Ferid", id |-> "u1"],
     images |-> << [url |-> "http://img/1"] >>]

LargePlaylist ==
    [id |-> "large", name |-> "Everything",
     owner |-> [display_name |-> Null, id |-> "u2"],
     images |-> << >>]

\* a playlist whose owner the provider gives as null
OrphanPlaylist ==
    [id |-> "orphan", name |-> "Left", owner |-> NullRec, images |-> << [url |-> Null] >>]

PlaylistOf(id) ==
    IF id = "large" THEN LargePlaylist
    ELSE IF id = "orphan" THEN OrphanPlaylist ELSE SmallPlaylist

\* POST /api/token with grant_type=refresh_token: what the token endpoint
\* may answer, and how long it takes (ms)
RefreshGrants ==
    { [data |-> [access_token |-> "tokB", expires_in |-> NoNum], delay |-> 0],
      [data |-> [access_token |-> "tokC", expires_in |-> 1800], delay |-> 250],
      [data |-> [access_token |-> "tokD", expires_in |-> 0], delay |-> 0],
      [data |-> [access_token |-> "tokE", expires_in |-> NullNum], delay |-> 0] }

\* POST /api/token with grant_type=authorization_code: what the token
\* endpoint may answer
AuthGrants ==
    { [access_token |-> "tokX", refresh_token |-> "refX", expires_in |-> 3600],
      [access_token |-> "tokY", refresh_token |-> "refY", expires_in |-> NoNum],
      [access_token |-> "tokZ", refresh_token |-> "refZ", expires_in |-> NullNum] }

\* req.query.code of a request GET /callback
AuthCodes == { Null, "code1" }

\* what a failed refresh throws: the token endpoint rejects the refresh
\* token, or there is no response (no connection)
TokenErrors ==
    { [message |-> "Request failed with status code 400", hasResponse |-> TRUE,
       data |-> "invalid_grant"],
      [message |-> "socket hang up", hasResponse |-> FALSE, data |-> Null] }

\* what a failed upstream call throws: an HTTP error with a body, or an
\* error without a response (no connection)
UpstreamErrors ==
    { [message |-> "Request failed with status code 502", hasResponse |-> TRUE,
       data |-> "bad gateway"],
      [message |-> "Request failed with status code 500", hasResponse |-> TRUE,
       data |-> ""],
      [message |-> "socket hang up", hasResponse |-> FALSE, data |-> Null] }

---------------------------------------------------------------------------
(* The synchronous code of the handler, as functions of the data fetched.  *)

\* what the handler throws on a null or undefined receiver
TypeError(prop, of) ==
    [message |-> "Cannot read properties of " \o of \o " (reading '" \o prop \o "')",
     hasResponse |-> FALSE, data |-> Null]

NotAuthenticatedError ==
    [message |-> "not_authenticated", hasResponse |-> FALSE, data |-> Null]

\* mutant: a track is put in front of the tracks collected so far
PushTrackFront(acc, i) ==
    IF i.track # NullRec THEN [acc EXCEPT !.out = << i.track >> \o @] ELSE acc

\* items.forEach(i => { if (i.track) tracks.push(i.track); })
PushTrack(acc, i) ==
    IF i.track # NullRec THEN [acc EXCEPT !.out = Append(@, i.track)] ELSE acc

PushTracks(trs, items) ==
    ForEach(PushTrack, [threw |-> FALSE, out |-> trs], items, 1, Len(items)).out

\* tracks.map(t => t.id).filter(Boolean)
TrackIds(trs) == SelectSeq([i \in 1..Len(trs) |-> trs[i].id], Truthy)

\* tracks.forEach(t => { if (t && t.artists) t.artists.forEach(a => artistIds.push(a.id)); })
PushArtistIds(acc, t) ==
    IF t # NullRec /\ t.hasArtists
    THEN [acc EXCEPT !.out = @ \o [k \in 1..Len(t.artists) |-> t.artists[k].id]]
    ELSE acc

ArtistIds(trs) ==
    ForEach(PushArtistIds, [threw |-> FALSE, out |-> << >>], trs, 1, Len(trs)).out

\* mutant: every value is kept
DistinctKeepAll(s) == s

\* [...new Set(s)]: the distinct values in first-seen order
SetAdd(acc, x) ==
    IF x \in acc.seen THEN acc
    ELSE [acc EXCEPT !.seen = @ \cup {x}, !.out = Append(@, x)]

Distinct(s) ==
    ForEach(SetAdd, [threw |-> FALSE, seen |-> {}, out |-> << >>], s, 1, Len(s)).out

\* [...new Set(artistIds)].filter(Boolean)
UniqueArtistIds(trs) == SelectSeq(Distinct(ArtistIds(trs)), Truthy)

\* the loop header and the `if (!batch) continue` of a batch loop: the first
\* position from i on whose slice joins to a non-empty string, or a position
\* past the end
RECURSIVE NextBatch(_, _, _)
NextBatch(ids, i, size) ==
    IF i >= Len(ids) THEN i
    ELSE IF Join(Slice(ids, i, i + size), ",") = "" THEN NextBatch(ids, i + size, size)
    ELSE i

\* (fResp.data.audio_features || []).forEach(af => { if (af && af.id) audioFeatures[af.id] = af; })
MergeFeature(acc, af) ==
    IF af # NullRec /\ Truthy(af.id)
    THEN [acc EXCEPT !.obj = ObjSetObject(@, PropKey(af.id), af)]
    ELSE acc

MergeFeatures(afs, entries) ==
    ForEach(MergeFeature, [threw |-> FALSE, obj |-> afs], entries, 1, Len(entries)).obj

\* (aResp.data.artists || []).forEach(a => { artistsMap[a.id] = a; })
MergeArtist(acc, a) ==
    IF a = NullRec
    THEN [acc EXCEPT !.threw = TRUE]
    ELSE [acc EXCEPT !.obj = ObjSetObject(@, PropKey(a.id), a)]

MergeArtists(am, entries) ==
    ForEach(MergeArtist, [threw |-> FALSE, obj |-> am], entries, 1, Len(entries))

\* (counts[key] || 0) + 1: one more than a number, and a string with "1"
\* appended when what is found under key is no number
Increment(counts, key) ==
    LET found == ObjGet(counts, key)
    IN  IF found.kind = "inherited" THEN Str(ProtoString(key) \o "1")
        ELSE IF found.kind # "own" THEN Num(1)
        ELSE IF IsNum(found.val) THEN Num(found.val.num + 1)
        ELSE IF found.val.str = "" THEN Num(1)
        ELSE Str(found.val.str \o "1")

\* (t.artists || []).forEach(a => { if (!a || !a.id) return; artistCount[..]++ })
CountArtist(acc, a) ==
    IF a = NullRec \/ ~Truthy(a.id) THEN acc
    ELSE LET key == OrElse(a.name, a.id)
         IN  [acc EXCEPT !.obj = ObjSet(@, key, Increment(@, key))]

\* if (af[k] !== undefined && af[k] !== null) featuresAccumulator[k] += af[k]
AddFeature(af, acc, k) ==
    IF af[k] # NoNum /\ af[k] # NullNum THEN [acc EXCEPT !.sum[k] = @ + af[k]] ELSE acc

\* the body of tracks.forEach(t => { ... }) that computes the stats; what
\* audioFeatures[t.id] finds is counted when it is truthy, and its feature
\* values are added when it is a record of audio features
AggregateTrack(afs, acc, t) ==
    IF t = NullRec THEN acc
    ELSE IF ~t.hasArtists
    THEN [acc EXCEPT !.threw = TRUE,
                     !.totalDurationMs = @ + OrZero(t.duration_ms)]
    ELSE LET af == ObjGet(afs, PropKey(t.id))
         IN  [acc EXCEPT
                !.totalDurationMs = @ + OrZero(t.duration_ms),
                !.trackPopularity =
                    Append(@, [id |-> t.id, name |-> t.name,
                               artists |-> Join([k \in 1..Len(t.artists) |->
                                                    t.artists[k].name], ", "),
                               popularity |-> OrZero(t.popularity)]),
                !.artistCount =
                    ForEach(CountArtist, [threw |-> FALSE, obj |-> @],
                            t.artists, 1, Len(t.artists)).obj,
                !.featuresCount =
                    IF \/ af.kind \in { "own", "inherited" }
                       \/ af.kind = "property" /\ af.truthy
                    THEN @ + 1 ELSE @,
                !.featuresAccumulator =
                    IF af.kind = "own"
                    THEN ForEach(LAMBDA a, k : AddFeature(af.val, a, k),
                                 [threw |-> FALSE, sum |-> @],
                                 FeatureKeys, 1, Len(FeatureKeys)).sum
                    ELSE @]

Aggregate(trs, afs) ==
    ForEach(LAMBDA acc, t : AggregateTrack(afs, acc, t),
            [threw |-> FALSE, totalDurationMs |-> 0, artistCount |-> EmptyObj,
             trackPopularity |-> << >>,
             featuresAccumulator |-> [k \in { FeatureKeys[i] : i \in 1..Len(FeatureKeys) } |-> 0],
             featuresCount |-> 0],
            trs, 1, Len(trs))

\* mutant: the quotient is truncated
ToFixed3Truncated(sum, n) == { sum \div n }

\* +(x / n).toFixed(3) of fixed-point values in thousandths: the thousandth
\* nearest to sum / n.  Where sum / n lies half way between two thousandths
\* it is no binary fraction that the double x / n holds exactly, and the
\* double that holds it may lie on either side: both thousandths are results
\* that the code can give
ToFixed3(sum, n) ==
    LET q == sum \div n
        r == sum % n
    IN  IF 2 * r < n THEN { q }
        ELSE IF 2 * r > n THEN { q + 1 }
        ELSE { q, q + 1 }

\* const avgFeatures = {}; if (featuresCount > 0) { ... }: the objects that
\* the loop can leave
SetAverage(agg, acc, k) ==
    [acc EXCEPT !.objs =
        { ObjSet(o, k, v) : o \in @,
                            v \in ToFixed3(agg.featuresAccumulator[k], agg.featuresCount) }]

AvgFeatures(agg) ==
    IF agg.featuresCount > 0
    THEN ForEach(LAMBDA acc, k : SetAverage(agg, acc, k),
                 [threw |-> FALSE, objs |-> { EmptyObj }],
                 FeatureKeys, 1, Len(FeatureKeys)).objs
    ELSE { EmptyObj }

\* slice(0, 10) of the array whose elements are taken in the order perm
SliceTop(array, perm) == [i \in 1..Min(TopN, Len(array)) |-> array[perm[i]]]

\* entries.sort((a, b) => b[1] - a[1]).slice(0, 10)
SortedEntries(es) == SliceTop(es, SortDescending([i \in 1..Len(es) |-> es[i][2]]))

\* Object.entries(counts).sort((a, b) => b[1] - a[1]).slice(0, 10)
TopEntries(counts) == SortedEntries(ObjEntries(counts))

TopArtists(agg) ==
    LET Rows(top) == [i \in 1..Len(top) |-> [name |-> top[i][1], count |-> top[i][2]]]
    IN  Rows(TopEntries(agg.artistCount))

\* trackPopularity.sort((a, b) => b.popularity - a.popularity).slice(0, 10)
TopTracks(agg) ==
    SliceTop(agg.trackPopularity,
             SortDescending([i \in 1..Len(agg.trackPopularity) |->
                                Num(agg.trackPopularity[i].popularity)]))

\* mutant: a genre that is counted again keeps the count 1
CountGenreOnce(acc, g) == [acc EXCEPT !.obj = ObjSet(@, g, Num(1))]

\* Object.values(artistsMap).forEach(a => (a.genres || []).forEach(g => genreCount[g]++))
CountGenre(acc, g) ==
    [acc EXCEPT !.obj = ObjSet(@, g, Increment(@, g))]

\* mutant: the genres of an artist record are counted twice
CountGenresOfTwice(acc, a) ==
    ForEach(CountGenre, ForEach(CountGenre, acc, a.genres, 1, Len(a.genres)),
            a.genres, 1, Len(a.genres))

CountGenresOf(acc, a) == ForEach(CountGenre, acc, a.genres, 1, Len(a.genres))

GenreCount(am) ==
    LET as == ObjValues(am)
    IN  ForEach(CountGenresOf, [threw |-> FALSE, obj |-> EmptyObj], as, 1, Len(as)).obj

TopGenres(am) ==
    LET Rows(top) == [i \in 1..Len(top) |-> [genre |-> top[i][1], count |-> top[i][2]]]
    IN  Rows(TopEntries(GenreCount(am)))

\* mutant: only the tracks that have an id are counted
TotalTracksWithId(trs) == Len(TrackIds(trs))

\* const totalTracks = tracks.length
TotalTracks(trs) == Len(trs)

\* mutant: the minutes are not reduced modulo the hour
formatDurationTotalMinutes(ms) ==
    LET s   == ms \div 1000
        h   == s \div 3600
        m   == s \div 60
        sec == s % 60
    IN  (IF h > 0 THEN ToString(h) \o "h " ELSE "")
        \o ToString(m) \o "m " \o ToString(sec) \o "s"

formatDuration(ms) ==
    LET s   == ms \div 1000
        h   == s \div 3600
        m   == (s % 3600) \div 60
        sec == s % 60
    IN  (IF h > 0 THEN ToString(h) \o "h " ELSE "")
        \o ToString(m) \o "m " \o ToString(sec) \o "s"

\* playlist.owner?.display_name || playlist.owner?.id
OwnerLabel(pl) ==
    IF pl.owner = NullRec THEN Undefined ELSE OrElse(pl.owner.display_name, pl.owner.id)

\* playlist.images?.[0]?.url || null
CoverImage(pl) ==
    IF Len(pl.images) > 0 /\ Truthy(pl.images[1].url) THEN pl.images[1].url ELSE Null

Result(pl, trs, am, agg, avg) ==
    [status |-> 200,
     body |->
        [playlist |->
            [id |-> pl.id, name |-> pl.name, owner |-> OwnerLabel(pl),
             total_tracks |-> TotalTracks(trs),
             duration_ms |-> agg.totalDurationMs,
             duration_human |-> formatDuration(agg.totalDurationMs),
             image |-> CoverImage(pl)],
         analysis |->
            [avg_features |-> avg,
             features_count |-> agg.featuresCount,
             top_artists |-> TopArtists(agg),
             top_tracks |-> TopTracks(agg),
             top_genres |-> TopGenres(am)]]]

\* the catch block of the handler
Catch(err) ==
    IF err.message = "not_authenticated"
    THEN [status |-> 401, body |-> [error |-> "not_authenticated"]]
    ELSE [status |-> 500,
          body |-> [error |-> "analysis_failed",
                    detail |-> IF err.hasResponse /\ Truthy(err.data)
                               THEN err.data ELSE err.message]]

\* step 5 of the handler to res.json(result), or to the catch block: the
\* responses that it can send
ComputeStats(pl, trs, afs, am) ==
    LET agg == Aggregate(trs, afs)
    IN  IF agg.threw THEN { Catch(TypeError("map", "undefined")) }
        ELSE { Result(pl, trs, am, agg, avg) : avg \in AvgFeatures(agg) }

---------------------------------------------------------------------------
(* Upstream requests *)

Request(kind, url, ids, tok, refresh) ==
    [kind |-> kind, url |-> url, ids |-> ids, token |-> tok, refresh_token |-> refresh,
     state |-> "pending", data |-> NullRec]

RefreshRequest(refresh) ==
    Request("refresh", "https://accounts.spotify.com/api/token", << >>, Null, refresh)

MetadataRequest(id, tok) ==
    Request("metadata", "https://api.spotify.com/v1/playlists/" \o id, << >>, tok, Null)

TracksUrl(id) ==
    "https://api.spotify.com/v1/playlists/" \o id \o "/tracks?limit=" \o ToString(PageLimit)

\* the token request of GET /callback
CodeRequest(code) ==
    [kind |-> "authorize", url |-> "https://accounts.spotify.com/api/token", ids |-> << >>,
     token |-> Null, refresh_token |-> Null, code |-> code,
     state |-> "pending", data |-> NullRec]

PageRequest(url, tok) == Request("tracks", url, << >>, tok, Null)

FeaturesRequest(ids, tok) ==
    Request("features", "https://api.spotify.com/v1/audio-features?ids=" \o Join(ids, ","),
            ids, tok, Null)

\* mutant: the artists request carries no token
ArtistsRequestNoToken(ids, tok) ==
    Request("artists", "https://api.spotify.com/v1/artists?ids=" \o Join(ids, ","),
            ids, Null, Null)

ArtistsRequest(ids, tok) ==
    Request("artists", "https://api.spotify.com/v1/artists?ids=" \o Join(ids, ","),
            ids, tok, Null)

\* the request in flight gets its answer: resp.data, or the error thrown
Answer(rq, state, data) ==
    [rq EXCEPT ![Len(rq)] = [@ EXCEPT !.state = state, !.data = data]]

NoResponse == [status |-> 0]

Sessions ==
    { NullRec,
      [access_token |-> Null, refresh_token |-> Null, expires_in |-> NoNum],
      [access_token |-> "tokA", refresh_token |-> "ref1", expires_in |-> 100000 + ExpirySkewMs + 1],
      [access_token |-> "tokA", refresh_token |-> "ref1", expires_in |-> 100000 + ExpirySkewMs],
      [access_token |-> "tokA", refresh_token |-> "ref1", expires_in |-> NoNum] }

\* the concurrent calls of ensureAccessToken: where each call is, the
\* session and the time it saw on entry, its refresh request (a position of
\* reqs), the time and the place in the order of its write to the session,
\* and the token it returned
Callers == 1..NumCallers

IdleCall ==
    [pc |-> "idle", seen |-> NullRec, at |-> 0, req |-> 0, wroteAt |-> 0, order |-> 0,
     token |-> Null, err |-> NullRec]

\* the requests GET /callback and GET /logout: where each is, the token
\* request of /callback, the req.session of the request GET /logout (a
\* reference to the session until the handler assigns null to it) and
\* where each redirected to
IdleAuth ==
    [callback |-> [pc |-> "idle", request |-> NullRec, location |-> Null],
     logout |-> [pc |-> "idle", session |-> [isNull |-> FALSE], location |-> Null]]

Init ==
    /\ session \in Sessions
    /\ now = 100000
    /\ playlistId \in { "small", "large", "orphan" }
    /\ pc = "start"
    /\ ensured = NullRec
    /\ token = Null
    /\ playlist = NullRec
    /\ tracks = << >>
    /\ next = Null
    /\ fi = 0
    /\ ai = 0
    /\ audioFeatures = EmptyObj
    /\ artistsMap = EmptyObj
    /\ reqs = << >>
    /\ response = NoResponse
    /\ calls = [c \in Callers |-> IdleCall]
    /\ auth = IdleAuth

---------------------------------------------------------------------------
(* The handler *)

\* the artists loop from position i on: the next request, or, past the last
\* batch, the statistics and res.json(result)
ArtistsLoop(rq, trs, afs, am, i) ==
    LET ids == UniqueArtistIds(trs)
        j   == NextBatch(ids, i, ArtistBatch)
    IN  /\ ai' = j
        /\ IF j < Len(ids)
           THEN /\ pc' = "artists"
                /\ reqs' = Append(rq, ArtistsRequest(Slice(ids, j, j + ArtistBatch), token))
                /\ response' = response
           ELSE /\ pc' = "done"
                /\ reqs' = rq
                /\ response' \in ComputeStats(playlist, trs, afs, am)

\* the audio-features loop from position i on: the next request, or, past the
\* last batch, the artists loop
FeaturesLoop(rq, trs, afs, i) ==
    LET ids == TrackIds(trs)
        j   == NextBatch(ids, i, FeatureBatch)
    IN  /\ fi' = j
        /\ IF j < Len(ids)
           THEN /\ pc' = "features"
                /\ reqs' = Append(rq, FeaturesRequest(Slice(ids, j, j + FeatureBatch), token))
                /\ response' = response
                /\ ai' = ai
           ELSE ArtistsLoop(rq, trs, afs, artistsMap, 0)

\* how the promise of ensureAccessToken(req) is settled
Returned(tok) == [ok |-> TRUE, token |-> tok]
Thrown(err) == [ok |-> FALSE, err |-> err]

\* the handler up to `await ensureAccessToken(req)`: ensureAccessToken runs
\* up to its throw, its return or its refresh request, and the handler
\* waits for its promise
Analyze ==
    /\ pc = "start"
    /\ IF session = NullRec \/ ~Truthy(session.access_token)
       THEN /\ pc' = "ensure"
            /\ ensured' = Thrown(NotAuthenticatedError)
            /\ UNCHANGED reqs
       ELSE IF now < OrZero(session.expires_in) - ExpirySkewMs
       THEN /\ pc' = "ensure"
            /\ ensured' = Returned(session.access_token)
            /\ UNCHANGED reqs
       ELSE /\ pc' = "refresh"
            /\ reqs' = Append(reqs, RefreshRequest(session.refresh_token))
            /\ UNCHANGED ensured
    /\ UNCHANGED << session, now, playlistId, calls, auth, token, playlist, tracks, next, fi, ai,
                    audioFeatures, artistsMap, response >>

\* mutant: a session that was refreshed in the meantime is left as it is
RefreshedOnce(sess, data, t) ==
    IF t < OrZero(sess.expires_in) - ExpirySkewMs THEN sess
    ELSE [sess EXCEPT !.access_token = data.access_token,
                      !.expires_in = t + OrDefault(data.expires_in, DefaultExpiresIn) * 1000]

\* req.session.access_token = resp.data.access_token;
\* req.session.expires_in = Date.now() + ((resp.data.expires_in || 3600) * 1000)
Refreshed(sess, data, t) ==
    [sess EXCEPT !.access_token = data.access_token,
                 !.expires_in = t + OrDefault(data.expires_in, DefaultExpiresIn) * 1000]

\* mutant: the token read before the refresh is returned
EnsuredTokenStale(old, new) == old.access_token

\* return req.session.access_token, after the session was refreshed
EnsuredToken(old, new) == new.access_token

\* the token endpoint answers: the rest of ensureAccessToken, which writes
\* the session and returns
RefreshResponse ==
    /\ pc = "refresh"
    /\ \E grant \in RefreshGrants :
          /\ now' = now + grant.delay
          /\ session' = Refreshed(session, grant.data, now')
          /\ ensured' = Returned(EnsuredToken(session, session'))
          /\ reqs' = Answer(reqs, "ok", grant.data)
    /\ pc' = "ensure"
    /\ UNCHANGED << playlistId, calls, auth, token, playlist, tracks, next, fi, ai, audioFeatures,
                    artistsMap, response >>

\* the refresh request fails: axios throws and ensureAccessToken throws on
RefreshFailure ==
    /\ pc = "refresh"
    /\ \E err \in TokenErrors :
          /\ ensured' = Thrown(err)
          /\ reqs' = Answer(reqs, "failed", err)
    /\ pc' = "ensure"
    /\ UNCHANGED << session, now, playlistId, calls, auth, token, playlist, tracks, next, fi, ai,
                    audioFeatures, artistsMap, response >>

\* the handler after `await ensureAccessToken(req)`: the playlist request
\* with the token returned, or the catch block with the error thrown
TokenEnsured ==
    /\ pc = "ensure"
    /\ IF ensured.ok
       THEN /\ token' = ensured.token
            /\ reqs' = Append(reqs, MetadataRequest(playlistId, ensured.token))
            /\ pc' = "metadata"
            /\ UNCHANGED response
       ELSE /\ response' = Catch(ensured.err)
            /\ pc' = "done"
            /\ UNCHANGED << token, reqs >>
    /\ UNCHANGED << session, now, playlistId, calls, auth, ensured, playlist, tracks, next, fi, ai,
                    audioFeatures, artistsMap >>

\* the playlist arrives: the first page of tracks is requested
MetadataResponse ==
    /\ pc = "metadata"
    /\ playlist' = PlaylistOf(playlistId)
    /\ tracks' = << >>
    /\ next' = TracksUrl(playlistId)
    /\ reqs' = Append(Answer(reqs, "ok", playlist'), PageRequest(next', token))
    /\ pc' = "tracks"
    /\ UNCHANGED << session, now, playlistId, calls, auth, ensured, token, fi, ai, audioFeatures,
                    artistsMap, response >>

\* the pages the provider may serve next, each with whether another follows
ProviderPages ==
    LET served == Cardinality({ i \in 1..Len(reqs) : reqs[i].kind = "tracks" })
    IN  IF playlistId = "large"
        THEN { [items |-> LargePage(served, PageLimit), more |-> m] :
                  m \in { b \in BOOLEAN : b => served < MaxLargePages } }
             \cup { [items |-> LargePage(served, PageLimit \div 2), more |-> FALSE] }
        ELSE IF playlistId = "orphan"
        THEN { [items |-> << Item(T1), NullItem >>, more |-> FALSE] }
        ELSE { [items |-> p, more |-> m] :
                  p \in SmallPages, m \in { b \in BOOLEAN : b => served < MaxPages } }

\* mutant: the paging loop stops after the first page
WhileNextOnce(nxt) == FALSE

\* while (next)
WhileNext(nxt) == Truthy(nxt)

NextUrl(url, n) == url \o "&offset=" \o ToString(n)

\* a page of tracks arrives: the next page is requested, or, after the last
\* page, the id lists are built and the batch loops begin
TrackPageResponse ==
    /\ pc = "tracks"
    /\ \E page \in ProviderPages :
          LET served == Cardinality({ i \in 1..Len(reqs) : reqs[i].kind = "tracks" })
              nxt == IF page.more THEN NextUrl(TracksUrl(playlistId), served * PageLimit)
                     ELSE Null
              rq  == Answer(reqs, "ok", [items |-> page.items, next |-> nxt])
              trs == PushTracks(tracks, page.items)
          IN  /\ tracks' = trs
              /\ next' = nxt
              /\ IF WhileNext(nxt)
                 THEN /\ pc' = "tracks"
                      /\ reqs' = Append(rq, PageRequest(nxt, token))
                      /\ UNCHANGED << fi, ai, response >>
                 ELSE FeaturesLoop(rq, trs, audioFeatures, 0)
    /\ UNCHANGED << session, now, playlistId, calls, auth, ensured, token, playlist, audioFeatures,
                    artistsMap >>

\* a batch of audio features arrives and is merged
FeaturesResponse ==
    /\ pc = "features"
    /\ LET ids     == reqs[Len(reqs)].ids
           entries == [k \in 1..Len(ids) |-> FeaturesOf(ids[k])]
           afs     == MergeFeatures(audioFeatures, entries)
       IN  /\ audioFeatures' = afs
           /\ FeaturesLoop(Answer(reqs, "ok", [audio_features |-> entries]), tracks, afs,
                           fi + FeatureBatch)
    /\ UNCHANGED << session, now, playlistId, calls, auth, ensured, token, playlist, tracks, next,
                    artistsMap >>

\* a batch of artists arrives and is merged
ArtistsResponse ==
    /\ pc = "artists"
    /\ LET ids     == reqs[Len(reqs)].ids
           entries == [k \in 1..Len(ids) |-> ArtistOf(ids[k])]
           merged  == MergeArtists(artistsMap, entries)
           rq      == Answer(reqs, "ok", [artists |-> entries])
       IN  /\ artistsMap' = merged.obj
           /\ IF merged.threw
              THEN /\ pc' = "done"
                   /\ reqs' = rq
                   /\ response' = Catch(TypeError("id", "null"))
                   /\ UNCHANGED ai
              ELSE ArtistsLoop(rq, tracks, audioFeatures, merged.obj, ai + ArtistBatch)
    /\ UNCHANGED << session, now, playlistId, calls, auth, ensured, token, playlist, tracks, next,
                    fi, audioFeatures >>

\* the request of the handler in flight fails: axios throws and the catch
\* block answers
UpstreamFailure ==
    /\ pc \in { "metadata", "tracks", "features", "artists" }
    /\ \E err \in UpstreamErrors :
          /\ response' = Catch(err)
          /\ reqs' = Answer(reqs, "failed", err)
    /\ pc' = "done"
    /\ UNCHANGED << session, now, playlistId, calls, auth, ensured, token, playlist, tracks, next,
                    fi, ai, audioFeatures, artistsMap >>

Next ==
    \/ Analyze
    \/ RefreshResponse
    \/ RefreshFailure
    \/ TokenEnsured
    \/ MetadataResponse
    \/ TrackPageResponse
    \/ FeaturesResponse
    \/ ArtistsResponse
    \/ UpstreamFailure

Spec == Init /\ [][Next]_vars

---------------------------------------------------------------------------
(* Concurrent requests on one session object: calls of ensureAccessToken   *)
(* and a request GET /callback, and beside them a request GET /logout,     *)
(* which assigns to its own req only.  Each runs from its entry to its     *)
(* first await in one step, and from the arrival of the token endpoint's   *)
(* answer to its end in one step; the steps interleave, and time passes    *)
(* between them.                                                           *)

handlerVars == << playlistId, pc, ensured, token, playlist, tracks, next, fi, ai,
                  audioFeatures, artistsMap, response >>

\* the request at position i gets its answer
AnswerAt(rq, i, state, data) ==
    [rq EXCEPT ![i] = [@ EXCEPT !.state = state, !.data = data]]

RaceInit ==
    /\ session \in Sessions
    /\ now = 100000
    /\ calls = [c \in Callers |-> IdleCall]
    /\ auth = IdleAuth
    /\ reqs = << >>
    /\ playlistId = "small"
    /\ pc = "start"
    /\ ensured = NullRec
    /\ token = Null
    /\ playlist = NullRec
    /\ tracks = << >>
    /\ next = Null
    /\ fi = 0
    /\ ai = 0
    /\ audioFeatures = EmptyObj
    /\ artistsMap = EmptyObj
    /\ response = NoResponse

\* ensureAccessToken from its entry: it throws, returns the stored token,
\* or posts the refresh request
Ensure(c) ==
    /\ calls[c].pc = "idle"
    /\ LET entered == [calls[c] EXCEPT !.seen = session, !.at = now]
       IN  IF session = NullRec \/ ~Truthy(session.access_token)
           THEN /\ calls' = [calls EXCEPT ![c] =
                                [entered EXCEPT !.pc = "threw",
                                                !.err = NotAuthenticatedError]]
                /\ reqs' = reqs
           ELSE IF now < OrZero(session.expires_in) - ExpirySkewMs
           THEN /\ calls' = [calls EXCEPT ![c] =
                                [entered EXCEPT !.pc = "returned",
                                                !.token = session.access_token]]
                /\ reqs' = reqs
           ELSE /\ calls' = [calls EXCEPT ![c] =
                                [entered EXCEPT !.pc = "refresh",
                                                !.req = Len(reqs) + 1]]
                /\ reqs' = Append(reqs, RefreshRequest(session.refresh_token))
    /\ UNCHANGED << session, now, auth, handlerVars >>

\* the token endpoint answers the refresh request of a call: the session is
\* written and the call returns
EnsureGranted(c) ==
    /\ calls[c].pc = "refresh"
    /\ \E grant \in RefreshGrants :
          /\ now' = now + grant.delay
          /\ reqs' = AnswerAt(reqs, calls[c].req, "ok", grant.data)
          /\ session' = Refreshed(session, grant.data, now')
          /\ calls' = [calls EXCEPT ![c] =
                          [@ EXCEPT !.pc = "returned",
                                    !.token = EnsuredToken(session, session'),
                                    !.wroteAt = now',
                                    !.order = 1 + Cardinality({ d \in Callers :
                                                          calls[d].order > 0 })]]
    /\ UNCHANGED << auth, handlerVars >>

\* the refresh request of a call fails: the call throws
EnsureRejected(c) ==
    /\ calls[c].pc = "refresh"
    /\ \E err \in TokenErrors :
          /\ reqs' = AnswerAt(reqs, calls[c].req, "failed", err)
          /\ calls' = [calls EXCEPT ![c] = [@ EXCEPT !.pc = "threw", !.err = err]]
    /\ UNCHANGED << session, now, auth, handlerVars >>

\* Date.now() + (tokenResp.data.expires_in * 1000): undefined * 1000 is NaN
\* and so is the sum, null * 1000 is 0
ExpiresAt(t, expires_in) ==
    IF expires_in = NoNum THEN NoNum
    ELSE IF expires_in = NullNum THEN t + 0
    ELSE t + expires_in * 1000

\* the three assignments of GET /callback to the session
Authorized(sess, data, t) ==
    [sess EXCEPT !.access_token = data.access_token,
                 !.refresh_token = data.refresh_token,
                 !.expires_in = ExpiresAt(t, data.expires_in)]

\* GET /callback up to its await: without a code it redirects, with a code
\* it posts the token request
Callback ==
    /\ auth.callback.pc = "idle"
    /\ \E code \in AuthCodes :
          IF ~Truthy(code)
          THEN /\ auth' = [auth EXCEPT !.callback =
                              [@ EXCEPT !.pc = "done", !.location = "/?error=no_code"]]
               /\ reqs' = reqs
          ELSE /\ auth' = [auth EXCEPT !.callback =
                              [@ EXCEPT !.pc = "exchange", !.request = CodeRequest(code)]]
               /\ reqs' = reqs
    /\ UNCHANGED << session, now, calls, handlerVars >>

\* the token endpoint answers the request of GET /callback: the session is
\* written and the browser sent to the front end; when req.session is null
\* the first assignment throws into the catch block
CallbackGranted ==
    /\ auth.callback.pc = "exchange"
    /\ \E data \in AuthGrants :
          IF session = NullRec
          THEN /\ session' = session
               /\ auth' = [auth EXCEPT !.callback =
                              [@ EXCEPT !.pc = "done", !.request.state = "ok",
                                        !.location = "/?error=token_failed"]]
          ELSE /\ session' = Authorized(session, data, now)
               /\ auth' = [auth EXCEPT !.callback =
                              [@ EXCEPT !.pc = "done", !.request.state = "ok",
                                        !.location = "/"]]
    /\ UNCHANGED << now, reqs, calls, handlerVars >>

\* the token request of GET /callback fails: the catch block redirects
CallbackRejected ==
    /\ auth.callback.pc = "exchange"
    /\ auth' = [auth EXCEPT !.callback =
                   [@ EXCEPT !.pc = "done", !.request.state = "failed",
                             !.location = "/?error=token_failed"]]
    /\ UNCHANGED << session, now, reqs, calls, handlerVars >>

\* GET /logout: req.session = null assigns to the property of this request's
\* req; the session the other requests hold is left as it is
Logout ==
    /\ auth.logout.pc = "idle"
    /\ auth' = [auth EXCEPT !.logout = [@ EXCEPT !.pc = "done", !.session = NullRec,
                                                 !.location = "/"]]
    /\ UNCHANGED << session, now, reqs, calls, handlerVars >>

\* time passes
ClockTick ==
    /\ now < 100000 + MaxClockTicks
    /\ now' = now + 1
    /\ UNCHANGED << session, reqs, calls, auth, handlerVars >>

\* concurrent requests that call ensureAccessToken on one session, and a
\* request GET /logout beside them
RaceNext ==
    \/ \E c \in Callers : Ensure(c)
    \/ \E c \in Callers : EnsureGranted(c)
    \/ \E c \in Callers : EnsureRejected(c)
    \/ Logout
    \/ ClockTick

SpecRace == RaceInit /\ [][RaceNext]_vars

\* the same with a request GET /callback, which writes the session too
SessionNext ==
    \/ RaceNext
    \/ Callback
    \/ CallbackGranted
    \/ CallbackRejected

SpecSession == RaceInit /\ [][SessionNext]_vars

---------------------------------------------------------------------------
(* Properties *)

DataKinds == { "metadata", "tracks", "features", "artists" }

Last == reqs[Len(reqs)]

RequestsOf(kind) == SelectSeq(reqs, LAMBDA r : r.kind = kind)

Answered(r) == r.state = "ok"

Failed(r) == r.state = "failed"

Finished == pc = "done"

Succeeded == pc = "done" /\ response.status = 200

\* the entries of an answered batch response
Entries(r) == IF r.kind = "features" THEN r.data.audio_features ELSE r.data.artists

HasNullEntry(r) == \E k \in 1..Len(Entries(r)) : Entries(r)[k] = NullRec

\* no payload on which the synchronous code throws: every track has an
\* artists list and no artists response holds a null entry
WellFormedPayload ==
    /\ \A i \in 1..Len(tracks) : tracks[i].hasArtists
    /\ \A i \in 1..Len(reqs) :
          reqs[i].kind = "artists" /\ Answered(reqs[i]) => ~HasNullEntry(reqs[i])

StageRank(kind) ==
    CASE kind = "refresh"  -> 0
      [] kind = "metadata" -> 1
      [] kind = "tracks"   -> 2
      [] kind = "features" -> 3
      [] kind = "artists"  -> 4

\* C1: the upstream requests are issued in the order playlist metadata, track
\* pages, audio-feature batches, artist batches; a feature or artist batch is
\* requested only after the track page with next = null has been received;
\* after a failed request no further request is issued and the response is an
\* error only.
C1_StagesInOrder ==
    /\ \A i, j \in 1..Len(reqs) :
          i < j => StageRank(reqs[i].kind) <= StageRank(reqs[j].kind)
    /\ Cardinality({ i \in 1..Len(reqs) : reqs[i].kind = "metadata" }) <= 1
    /\ \A i \in 1..Len(reqs) :
          reqs[i].kind \in { "tracks", "features", "artists" } =>
             \E j \in 1..(i - 1) : reqs[j].kind = "metadata" /\ Answered(reqs[j])
    /\ \A i \in 1..Len(reqs) :
          reqs[i].kind \in { "features", "artists" } =>
             \E j \in 1..(i - 1) :
                /\ reqs[j].kind = "tracks"
                /\ Answered(reqs[j])
                /\ reqs[j].data.next = Null
                /\ \A k \in (j + 1)..Len(reqs) : reqs[k].kind # "tracks"
    /\ \A i \in 1..(Len(reqs) - 1) : Answered(reqs[i])
    /\ (\E i \in 1..Len(reqs) : Failed(reqs[i])) =>
          /\ pc \in { "ensure", "done" }
          /\ pc = "ensure" => response = NoResponse
          /\ pc = "done" =>
                /\ response.status = 500
                /\ DOMAIN response.body = { "error", "detail" }

C1_Witness ==
    /\ pc = "done"
    /\ Len(reqs) >= 6
    /\ reqs[1].kind = "refresh"
    /\ Len(RequestsOf("tracks")) >= 2
    /\ Len(RequestsOf("features")) >= 1
    /\ Last.kind = "artists"
    /\ Failed(Last)

\* C2: a failed upstream request of the metadata, track-paging or
\* batch-lookup stage is surfaced with the tag upstream_fetch_failed.
C2_TaggedUpstreamFetchFailed ==
    \A i \in 1..Len(reqs) :
       Failed(reqs[i]) /\ reqs[i].kind \in DataKinds =>
          response.body.error = "upstream_fetch_failed"

\* C3: every authentication failure is answered 401 not_authenticated: with no
\* access token in the session (and then no upstream request is issued), and
\* with an expired token whose refresh request fails.
C3_AuthFailureIs401 ==
    /\ (session = NullRec \/ ~Truthy(session.access_token)) => reqs = << >>
    /\ (pc = "done" /\ reqs = << >>) =>
          response = [status |-> 401, body |-> [error |-> "not_authenticated"]]
    /\ \A i \in 1..Len(reqs) :
          (/\ reqs[i].kind = "refresh"
           /\ Failed(reqs[i])
           /\ reqs[i].data.hasResponse
           /\ pc = "done") =>
             response = [status |-> 401, body |-> [error |-> "not_authenticated"]]

\* C4: with an expired token and a successful refresh, exactly one refresh
\* request is issued, the session holds the refreshed token and expiry, every
\* later request carries the refreshed token, and no error is surfaced: the
\* response is the result unless a later request fails or a payload is
\* malformed.  A request issued without a refresh means the token was valid.
C4_RefreshOnceThenFreshToken ==
    /\ (reqs # << >> /\ reqs[1].kind = "metadata") =>
          now < OrZero(session.expires_in) - ExpirySkewMs
    /\ (reqs # << >> /\ reqs[1].kind = "refresh" /\ Answered(reqs[1])) =>
          LET grant == reqs[1].data
          IN  /\ Len(RequestsOf("refresh")) = 1
              /\ grant.access_token # "tokA"
              /\ session.access_token = grant.access_token
              /\ session.expires_in =
                    now + (IF grant.expires_in \in { NoNum, NullNum, 0 } THEN 3600
                           ELSE grant.expires_in) * 1000
              /\ pc = "ensure" => ensured = [ok |-> TRUE, token |-> grant.access_token]
              /\ pc # "ensure" => token = grant.access_token
              /\ \A i \in 2..Len(reqs) : reqs[i].token = grant.access_token
              /\ response.status # 401
              /\ (pc = "done" /\ Answered(Last) /\ WellFormedPayload) =>
                    response.status = 200

C4_Witness ==
    /\ Succeeded
    /\ reqs[1].kind = "refresh"
    /\ session.access_token = "tokC"
    /\ Len(RequestsOf("tracks")) >= 2
    /\ Len(RequestsOf("features")) >= 1
    /\ Len(RequestsOf("artists")) >= 1

\* the non-null tracks of a page, in page order
NonNullTracks(items) ==
    LET sel == SelectSeq(items, LAMBDA it : it.track # NullRec)
    IN  [i \in 1..Len(sel) |-> sel[i].track]

\* the non-null tracks of the first k answered pages, in page order
RECURSIVE Retrieved(_, _)
Retrieved(pages, k) ==
    IF k = 0 THEN << >>
    ELSE Retrieved(pages, k - 1)
         \o (IF Answered(pages[k]) THEN NonNullTracks(pages[k].data.items) ELSE << >>)

\* C5: the paging loop issues one request per page, each at the cursor of the
\* previous response, stops after the first page whose next is null, and the
\* tracks collected are the non-null tracks of the pages in page and in-page
\* order; a null placeholder raises no error.
C5_PagingFollowsCursor ==
    LET pages == RequestsOf("tracks")
    IN  /\ Len(pages) >= 1 => pages[1].url = TracksUrl(playlistId)
        /\ \A k \in 1..(Len(pages) - 1) :
              /\ Answered(pages[k])
              /\ Truthy(pages[k].data.next)
              /\ pages[k + 1].url = pages[k].data.next
        /\ (Len(pages) >= 1 /\ Answered(pages[Len(pages)])) =>
              pages[Len(pages)].data.next = Null
        /\ tracks = Retrieved(pages, Len(pages))
        /\ (pc = "done" /\ Len(pages) >= 1 /\ Last.kind = "tracks" /\ Answered(Last)
               /\ WellFormedPayload) => response.status = 200

C5_Witness ==
    /\ Succeeded
    /\ Len(RequestsOf("tracks")) = 3
    /\ \E i \in 1..Len(reqs) :
          /\ reqs[i].kind = "tracks"
          /\ \E k \in 1..Len(reqs[i].data.items) : reqs[i].data.items[k] = NullItem
    /\ Len(tracks) >= 5
    /\ tracks[1] # tracks[Len(tracks)]

\* the k-th contiguous chunk of ids, at most size long
Chunk(ids, k, size) == SubSeq(ids, (k - 1) * size + 1, Min(k * size, Len(ids)))

CeilDiv(n, size) == (n + size - 1) \div size

\* the requests of a batch loop are the chunks of ids in order, none of them
\* empty, and all of them once the loop has ended
BatchesAreChunks(kind, ids, size, ended) ==
    LET batches == RequestsOf(kind)
    IN  /\ Len(batches) <= CeilDiv(Len(ids), size)
        /\ \A k \in 1..Len(batches) :
              /\ batches[k].ids = Chunk(ids, k, size)
              /\ Len(batches[k].ids) >= 1
              /\ Len(batches[k].ids) <= size
              /\ k < CeilDiv(Len(ids), size) => Len(batches[k].ids) = size
        /\ ended => Len(batches) = CeilDiv(Len(ids), size)

\* the audio-features loop has ended
FeaturesLoopEnded ==
    \/ pc = "artists"
    \/ pc = "done" /\ reqs # << >> /\ (Answered(Last) \/ Last.kind = "artists")

\* the artists loop has ended
ArtistsLoopEnded ==
    /\ pc = "done"
    /\ reqs # << >>
    /\ Answered(Last)
    /\ ~(Last.kind = "artists" /\ HasNullEntry(Last))

\* C6: the batch loops request the contiguous chunks of their id list in
\* order, ceil(N/B) of them, each of size B but a possibly shorter last one,
\* and never an empty one (none at all for N = 0); B is 100 for the non-empty
\* track ids and 50 for the artist ids.
C6_BatchesAreChunks ==
    /\ BatchesAreChunks("features", TrackIds(tracks), FeatureBatch, FeaturesLoopEnded)
    /\ BatchesAreChunks("artists", UniqueArtistIds(tracks), ArtistBatch, ArtistsLoopEnded)

C6_Witness ==
    /\ Succeeded
    /\ Len(TrackIds(tracks)) = 250
    /\ LET fs == RequestsOf("features")
       IN  [k \in 1..Len(fs) |-> Len(fs[k].ids)] = << 100, 100, 50 >>
    /\ LET as == RequestsOf("artists")
       IN  [k \in 1..Len(as) |-> Len(as[k].ids)] = << 50, 50, 20 >>

\* C7: a null entry of a batch response is left out of the merged mapping and
\* does not make the analysis fail, for audio features and artists alike.
C7_NullEntriesOmitted ==
    /\ \A k \in DOMAIN audioFeatures.val : audioFeatures.val[k] # NullRec
    /\ \A k \in DOMAIN artistsMap.val : artistsMap.val[k] # NullRec
    /\ \A i \in 1..Len(reqs) :
          (/\ reqs[i].kind \in { "features", "artists" }
           /\ Answered(reqs[i])
           /\ HasNullEntry(reqs[i])
           /\ i = Len(reqs)
           /\ pc = "done"
           /\ \A t \in 1..Len(tracks) : tracks[t].hasArtists)
          => response.status = 200

\* the number of non-null tracks over the first k answered pages
RECURSIVE CountRetrieved(_, _)
CountRetrieved(pages, k) ==
    IF k = 0 THEN 0
    ELSE CountRetrieved(pages, k - 1)
         + (IF Answered(pages[k])
            THEN Cardinality({ j \in 1..Len(pages[k].data.items) :
                                  pages[k].data.items[j].track # NullRec })
            ELSE 0)

\* C8: total_tracks of a result is the number of items with a non-null track
\* over all pages, tracks without an id included, whatever the number of
\* tracks that have features.
C8_TotalTracks ==
    Succeeded =>
       response.body.playlist.total_tracks
          = CountRetrieved(RequestsOf("tracks"), Len(RequestsOf("tracks")))

C8_Witness ==
    /\ Succeeded
    /\ \E i \in 1..Len(tracks) : tracks[i].id = Null
    /\ \E i \in 1..Len(reqs) :
          /\ reqs[i].kind = "tracks"
          /\ \E k \in 1..Len(reqs[i].data.items) : reqs[i].data.items[k] = NullItem
    /\ response.body.analysis.features_count < response.body.playlist.total_tracks
    /\ response.body.playlist.total_tracks >= 5

\* the sum of the durations of tracks lo..hi, an absent or null one counted as 0
RECURSIVE SumDurations(_, _, _)
SumDurations(trs, lo, hi) ==
    IF lo > hi THEN 0
    ELSE IF lo = hi THEN (IF trs[lo].duration_ms \in { NoNum, NullNum } THEN 0 ELSE trs[lo].duration_ms)
    ELSE LET mid == (lo + hi) \div 2
         IN  SumDurations(trs, lo, mid) + SumDurations(trs, mid + 1, hi)

\* the decimal number that starts at position i of str, and where it ends
RECURSIVE ReadNumber(_, _, _)
ReadNumber(str, i, acc) ==
    IF i <= Len(str) /\ IsDigit(Sub(str, i, i))
    THEN ReadNumber(str, i + 1, 10 * acc + DigitValue(Sub(str, i, i)))
    ELSE [val |-> acc, pos |-> i]

\* a number followed by unit, from position i of str
ReadField(str, i, unit) ==
    LET n == ReadNumber(str, i, 0)
    IN  [ok  |-> n.pos > i /\ Sub(str, n.pos, n.pos + Len(unit) - 1) = unit,
         val |-> n.val,
         pos |-> n.pos + Len(unit)]

\* "[<h>h ]<m>m <s>s" parsed back
ParseDuration(str) ==
    LET first   == ReadField(str, 1, "h ")
        hasHour == first.ok
        m       == ReadField(str, IF hasHour THEN first.pos ELSE 1, "m ")
        s       == ReadField(str, m.pos, "s")
    IN  [ok      |-> m.ok /\ s.ok /\ s.pos = Len(str) + 1,
         hasHour |-> hasHour,
         h       |-> IF hasHour THEN first.val ELSE 0,
         m       |-> m.val,
         s       |-> s.val]

\* C9: duration_ms of a result is the sum of the tracks' durations, an absent
\* duration counted as 0; duration_human parses back to hours, minutes in
\* 0..59 and seconds in 0..59 that add up to floor(duration_ms / 1000), with
\* an hour component exactly when the hours are not zero.
C9_DurationRoundTrip ==
    Succeeded =>
       LET p == response.body.playlist
           d == ParseDuration(p.duration_human)
       IN  /\ p.duration_ms = SumDurations(tracks, 1, Len(tracks))
           /\ d.ok
           /\ d.m \in 0..59
           /\ d.s \in 0..59
           /\ d.h * 3600 + d.m * 60 + d.s = p.duration_ms \div 1000
           /\ d.hasHour <=> d.h # 0

C9_Witness ==
    /\ Succeeded
    /\ \E i \in 1..Len(tracks) : tracks[i].duration_ms = NoNum
    /\ response.body.playlist.duration_ms >= 3600000
    /\ response.body.playlist.duration_ms % 1000 # 0
    /\ ParseDuration(response.body.playlist.duration_human).hasHour

\* the audio-feature records the provider returned
ReturnedFeatures ==
    { e \in UNION { { r.data.audio_features[k] : k \in 1..Len(r.data.audio_features) } :
                      r \in { reqs[i] : i \in { j \in 1..Len(reqs) :
                                  reqs[j].kind = "features" /\ Answered(reqs[j]) } } } :
        e # NullRec }

\* the returned records by id
FeaturesById ==
    LET recs == ReturnedFeatures
    IN  [id \in { e.id : e \in recs } |-> CHOOSE e \in recs : e.id = id]

\* the sum of field k over the tracks lo..hi that have a feature record in
\* byId, an absent or null field counted as 0
RECURSIVE SumFeature(_, _, _, _, _)
SumFeature(byId, trs, k, lo, hi) ==
    IF lo > hi THEN 0
    ELSE IF lo = hi
    THEN (IF trs[lo].id \in DOMAIN byId /\ byId[trs[lo].id][k] \notin { NoNum, NullNum }
          THEN byId[trs[lo].id][k] ELSE 0)
    ELSE LET mid == (lo + hi) \div 2
         IN  SumFeature(byId, trs, k, lo, mid) + SumFeature(byId, trs, k, mid + 1, hi)

\* C10: features_count is the number of track entries whose id has a feature
\* record; avg_features is empty exactly when that count is 0, and otherwise
\* each of its eight fields is the sum of the field over those tracks divided
\* by the count, rounded to a nearest thousandth.
C10_AverageFeatures ==
    Succeeded =>
       LET a    == response.body.analysis
           byId == FeaturesById
           n    == Cardinality({ i \in 1..Len(tracks) : tracks[i].id \in DOMAIN byId })
           avg  == a.avg_features
       IN  /\ a.features_count = n
           /\ (avg = EmptyObj) <=> (n = 0)
           /\ n > 0 =>
                 /\ avg.keys = FeatureKeys
                 /\ \A i \in 1..Len(FeatureKeys) :
                       LET k    == FeatureKeys[i]
                           sum  == SumFeature(byId, tracks, k, 1, Len(tracks))
                           diff == avg.val[k] * n - sum
                       IN  /\ 2 * diff <= n
                           /\ 2 * diff >= 0 - n

C10_Witness ==
    /\ Succeeded
    /\ Len(tracks) = 3
    /\ tracks[1].id \in DOMAIN FeaturesById
    /\ tracks[2].id \notin DOMAIN FeaturesById
    /\ tracks[3].id \in DOMAIN FeaturesById
    /\ tracks[1].id # tracks[3].id
    /\ response.body.analysis.features_count = 2
    /\ response.body.analysis.avg_features.val["danceability"] = 617



---------------------------------------------------------------------------
(* Rankings *)

\* the artist credits of the tracks retrieved, as << track position, credit
\* position >>, in playlist order
Credits(trs) ==
    UNION { { << i, k >> : k \in 1..Len(trs[i].artists) } :
              i \in { j \in 1..Len(trs) : trs[j].hasArtists } }

CreditOf(trs, c) == trs[c[1]].artists[c[2]]

\* the name a credit is counted under: the display name, else the id
CreditLabel(a) == IF Truthy(a.name) THEN a.name ELSE a.id

\* the artist records the provider returned, in the order received
RECURSIVE ReturnedArtistsFrom(_)
ReturnedArtistsFrom(i) ==
    IF i > Len(reqs) THEN << >>
    ELSE (IF reqs[i].kind = "artists" /\ Answered(reqs[i])
          THEN SelectSeq(reqs[i].data.artists, LAMBDA a : a # NullRec)
          ELSE << >>) \o ReturnedArtistsFrom(i + 1)

ReturnedArtists == ReturnedArtistsFrom(1)

\* the genre occurrences of the returned records, as << record position,
\* position in its genre list >>
GenreOccurrences(recs) ==
    UNION { { << i, k >> : k \in 1..Len(recs[i].genres) } : i \in 1..Len(recs) }

\* a ranking list: at most TopN entries, non-increasing by key, every
\* candidate with a key above the list's smallest key is in the list, and
\* the list is shorter than TopN only when it holds every candidate.
\* keys lists the keys of the list, which are numbers; cands maps each
\* candidate to its key.
IsRanking(keys, cands) ==
    /\ Len(keys) <= TopN
    /\ Len(keys) = Min(TopN, Cardinality(DOMAIN cands))
    /\ \A i \in 1..Len(keys) : IsNum(keys[i])
    /\ \A i \in 1..(Len(keys) - 1) : keys[i].num >= keys[i + 1].num
    /\ Len(keys) > 0 =>
          LET low == keys[Len(keys)].num
          IN  Cardinality({ c \in DOMAIN cands : cands[c] > low })
                = Cardinality({ i \in 1..Len(keys) : keys[i].num > low })

\* the occurrence count of every artist label, from the credits
ArtistCandidates(trs) ==
    LET counted == { c \in Credits(trs) : Truthy(CreditOf(trs, c).id) }
        labels  == { CreditLabel(CreditOf(trs, c)) : c \in counted }
    IN  [l \in labels |->
            Cardinality({ c \in counted : CreditLabel(CreditOf(trs, c)) = l })]

\* the ranking key of every track
TrackCandidates(trs) == [i \in 1..Len(trs) |-> OrZero(trs[i].popularity)]

\* the count of every genre label, from the returned artist records
GenreCandidates(recs) ==
    LET occ    == GenreOccurrences(recs)
        labels == { recs[o[1]].genres[o[2]] : o \in occ }
    IN  [g \in labels |->
            Cardinality({ o \in occ : recs[o[1]].genres[o[2]] = g })]

\* C11: in every successful result top_artists, top_tracks and top_genres
\* have at most 10 entries, are sorted non-increasing by count, popularity
\* and count, and no entry left out has a strictly greater key than an
\* entry of the list.
C11_RankingsSortedTop10 ==
    Succeeded =>
       LET a  == response.body.analysis
           ta == a.top_artists
           tt == a.top_tracks
           tg == a.top_genres
       IN  /\ IsRanking([i \in 1..Len(ta) |-> ta[i].count], ArtistCandidates(tracks))
           /\ IsRanking([i \in 1..Len(tt) |-> Num(tt[i].popularity)],
                        TrackCandidates(tracks))
           /\ IsRanking([i \in 1..Len(tg) |-> tg[i].count], GenreCandidates(ReturnedArtists))

\* the position at which a label is first seen in a sequence of labels
FirstSeen(labels, l) == CHOOSE i \in 1..Len(labels) :
    labels[i] = l /\ \A j \in 1..(i - 1) : labels[j] # l

\* the concatenation of the sequences seqs[lo..hi]
RECURSIVE ConcatRange(_, _, _)
ConcatRange(seqs, lo, hi) ==
    IF lo > hi THEN << >>
    ELSE IF lo = hi THEN seqs[lo]
    ELSE LET mid == (lo + hi) \div 2
         IN  ConcatRange(seqs, lo, mid) \o ConcatRange(seqs, mid + 1, hi)

Concat(seqs) == ConcatRange(seqs, 1, Len(seqs))

\* the labels of the counted credits in the order the credits are counted
CountedLabels(trs) ==
    Concat([i \in 1..Len(trs) |->
              IF trs[i].hasArtists
              THEN LET counted == SelectSeq(trs[i].artists, LAMBDA a : Truthy(a.id))
                   IN  [k \in 1..Len(counted) |-> CreditLabel(counted[k])]
              ELSE << >>])

\* the genre labels of the returned records in the order they are counted
CountedGenres(recs) == Concat([i \in 1..Len(recs) |-> recs[i].genres])

\* entries of equal count are listed in the order their labels were first seen
TiesInFirstSeenOrder(names, counts, labels) ==
    \A i, j \in 1..Len(names) :
        i < j /\ counts[i] = counts[j]
            => FirstSeen(labels, names[i]) < FirstSeen(labels, names[j])

\* C12: in top_artists and top_genres entries with equal counts appear in
\* the order in which the artist label, respectively the genre label, was
\* first counted, also for labels that are strings of decimal digits.
C12_TiesInInsertionOrder ==
    Succeeded =>
       LET ta == response.body.analysis.top_artists
           tg == response.body.analysis.top_genres
       IN  /\ TiesInFirstSeenOrder([i \in 1..Len(ta) |-> ta[i].name],
                                   [i \in 1..Len(ta) |-> ta[i].count],
                                   CountedLabels(tracks))
           /\ TiesInFirstSeenOrder([i \in 1..Len(tg) |-> tg[i].genre],
                                   [i \in 1..Len(tg) |-> tg[i].count],
                                   CountedGenres(ReturnedArtists))

\* the tuple of a track in the ranking of tracks
TrackTuple(t) ==
    [id |-> t.id, name |-> t.name,
     artists |-> Join([k \in 1..Len(t.artists) |-> t.artists[k].name], ", "),
     popularity |-> OrZero(t.popularity)]

\* the number of tracks that precede track j in the ranking: those of greater
\* popularity, and those of equal popularity earlier in the playlist
TrackRank(pops, j) ==
    Cardinality({ k \in 1..Len(pops) :
                    pops[k] > pops[j] \/ (pops[k] = pops[j] /\ k < j) })

\* C13: top_tracks is the first 10 entries of the list of track tuples
\* {id, name, joined artist names, popularity} (an absent popularity is 0)
\* sorted descending by popularity, tracks of equal popularity in playlist
\* order.
C13_TopTracksStable ==
    Succeeded =>
       LET tt   == response.body.analysis.top_tracks
           pops == TrackCandidates(tracks)
       IN  /\ Len(tt) = Min(TopN, Len(tracks))
           /\ \A j \in 1..Len(tracks) :
                 LET r == TrackRank(pops, j)
                 IN  r < TopN => tt[r + 1] = TrackTuple(tracks[j])

\* a successful result over more than 10 tracks whose top tracks hold two
\* different tracks of equal popularity, a track of the popularity of the
\* last entry being left out
C13_Witness ==
    /\ Succeeded
    /\ Len(tracks) > TopN
    /\ LET tt == response.body.analysis.top_tracks
       IN  /\ \E i \in 1..(Len(tt) - 1) :
                 tt[i].popularity = tt[i + 1].popularity /\ tt[i].id # tt[i + 1].id
           /\ \E j \in 1..Len(tracks) :
                 /\ tracks[j].popularity = tt[Len(tt)].popularity
                 /\ TrackRank(TrackCandidates(tracks), j) >= TopN

---------------------------------------------------------------------------
(* Genres *)

\* the genre labels carried by the records recs
GenreLabels(recs) == UNION { { r.genres[k] : k \in 1..Len(r.genres) } : r \in recs }

\* the ids of the records of recs that carry genre g
CarriersOf(recs, g) == { r.id : r \in { x \in recs : g \in GenreLabels({x}) } }

\* C14: the count of each genre of top_genres is the number of distinct
\* resolved artist records whose genre list holds it, however many tracks
\* credit the artist; every genre of a resolved record is listed while there
\* are at most 10.  Two tracks by one artist with genres [pop, indie] and a
\* third by another artist with genre [pop] give [{pop, 2}, {indie, 1}].
C14_GenrePerArtistRecord ==
    Succeeded =>
       LET tg     == response.body.analysis.top_genres
           ret    == ReturnedArtists
           recs   == { ret[i] : i \in 1..Len(ret) }
           labels == GenreLabels(recs)
       IN  /\ \A i \in 1..Len(tg) :
                 /\ tg[i].genre \in labels
                 /\ tg[i].count = Num(Cardinality(CarriersOf(recs, tg[i].genre)))
           /\ \A i, j \in 1..Len(tg) : i # j => tg[i].genre # tg[j].genre
           /\ Len(tg) = Min(TopN, Cardinality(labels))

\* the scenario: three tracks, the first two by the artist with genres
\* [pop, indie], the third by the artist with genre [pop]
C14_Witness ==
    /\ Succeeded
    /\ Len(tracks) = 3
    /\ tracks[1].id # tracks[2].id
    /\ tracks[1].artists = << Ann >> /\ tracks[2].artists = << Ann >>
    /\ tracks[3].artists = << Bob >>
    /\ ArtistOf("a1").genres = << "pop", "indie" >>
    /\ ArtistOf("a2").genres = << "pop" >>
    /\ response.body.analysis.top_genres
          = << [genre |-> "pop", count |-> Num(2)], [genre |-> "indie", count |-> Num(1)] >>

\* the credits of trs whose artist has an id and a resolved record that
\* carries genre g
CreditsCarrying(trs, g) ==
    { c \in Credits(trs) :
        LET a == CreditOf(trs, c)
        IN  /\ Truthy(a.id)
            /\ ArtistOf(a.id) # NullRec
            /\ g \in GenreLabels({ ArtistOf(a.id) }) }

\* C15 as stated: a genre carried by an artist credited on N tracks
\* contributes N, so that the count of a listed genre is the number of
\* credits whose artist carries it.
C15_GenrePerTrackOccurrence ==
    Succeeded =>
       LET tg == response.body.analysis.top_genres
       IN  \A i \in 1..Len(tg) :
              tg[i].count = Num(Cardinality(CreditsCarrying(tracks, tg[i].genre)))

\* C15 amended: a genre carried by an artist contributes 1 however many
\* tracks credit the artist, so that the count of a listed genre is the
\* number of distinct credited artist ids whose record carries it.
C15_GenreOncePerCreditedArtist ==
    Succeeded =>
       LET tg == response.body.analysis.top_genres
       IN  \A i \in 1..Len(tg) :
              tg[i].count =
                 Num(Cardinality({ CreditOf(tracks, c).id :
                                     c \in CreditsCarrying(tracks, tg[i].genre) }))

\* a successful result in which an artist credited on two tracks carries a
\* listed genre, whose count is below the number of credits carrying it
C15_Witness ==
    /\ Succeeded
    /\ LET tg == response.body.analysis.top_genres
       IN  \E i \in 1..Len(tg) :
              /\ \E c, d \in CreditsCarrying(tracks, tg[i].genre) :
                    c[1] # d[1] /\ CreditOf(tracks, c).id = CreditOf(tracks, d).id
              /\ tg[i].count.num < Cardinality(CreditsCarrying(tracks, tg[i].genre))

---------------------------------------------------------------------------
(* Batch inputs *)

\* the ids of the batch requests of a kind, concatenated in request order
SentIds(kind) ==
    LET batches == RequestsOf(kind)
    IN  Concat([k \in 1..Len(batches) |-> batches[k].ids])

\* the artist id of every credit, in playlist order
CreditIds(trs) ==
    Concat([i \in 1..Len(trs) |->
              IF trs[i].hasArtists
              THEN [k \in 1..Len(trs[i].artists) |-> trs[i].artists[k].id]
              ELSE << >>])

\* the non-empty track ids in playlist order, duplicates kept
RECURSIVE NonEmptyTrackIds(_, _, _)
NonEmptyTrackIds(trs, lo, hi) ==
    IF lo > hi THEN << >>
    ELSE IF lo = hi THEN (IF Truthy(trs[lo].id) THEN << trs[lo].id >> ELSE << >>)
    ELSE LET mid == (lo + hi) \div 2
         IN  NonEmptyTrackIds(trs, lo, mid) \o NonEmptyTrackIds(trs, mid + 1, hi)

IsPrefix(s, t) == Len(s) <= Len(t) /\ s = SubSeq(t, 1, Len(s))

\* C16: the artist batches list each distinct non-empty credited artist id
\* once, in first-seen order (all of them once the artists loop has ended);
\* the audio-feature batches list the non-empty track ids in playlist order
\* with duplicates kept.
C16_ArtistIdsDeduplicated ==
    LET sent    == SentIds("artists")
        credits == CreditIds(tracks)
        first   == [k \in 1..Len(sent) |-> FirstSeen(credits, sent[k])]
        wanted  == { credits[p] : p \in { q \in 1..Len(credits) : Truthy(credits[q]) } }
        tids    == NonEmptyTrackIds(tracks, 1, Len(tracks))
    IN  /\ \A k \in 1..Len(sent) :
              /\ sent[k] \in wanted
              /\ k > 1 => first[k - 1] < first[k]
        /\ Len(sent) > 0 =>
              { credits[p] : p \in { q \in 1..first[Len(sent)] : Truthy(credits[q]) } }
                 \subseteq { sent[k] : k \in 1..Len(sent) }
        /\ ArtistsLoopEnded => wanted = { sent[k] : k \in 1..Len(sent) }
        /\ IsPrefix(SentIds("features"), tids)
        /\ FeaturesLoopEnded => SentIds("features") = tids

\* a successful run over a playlist that holds a track twice, an artist
\* credited on several tracks and a credit without id
C16_Witness ==
    /\ Succeeded
    /\ LET credits == CreditIds(tracks)
           fids    == SentIds("features")
       IN  /\ \E p, q \in 1..Len(credits) :
                 p # q /\ credits[p] = credits[q] /\ Truthy(credits[p])
           /\ \E p \in 1..Len(credits) : credits[p] = Null
           /\ \E p, q \in 1..Len(fids) : p # q /\ fids[p] = fids[q]
           /\ Len(SentIds("artists")) >= 2

---------------------------------------------------------------------------
(* Concurrent refresh *)

\* the call saw a token that was expiring when it entered
SawExpiring(call) ==
    /\ call.pc # "idle"
    /\ call.seen # NullRec
    /\ Truthy(call.seen.access_token)
    /\ call.at >= OrZero(call.seen.expires_in) - ExpirySkewMs

\* the calls that have written the session
Writers == { c \in Callers : calls[c].order > 0 }

\* the call that wrote the session last
LastWriter == CHOOSE c \in Writers : \A d \in Writers : calls[d].order <= calls[c].order

\* C17: of concurrent calls on one session, every call that sees an expiring
\* token posts a refresh request of its own; a call whose refresh is answered
\* returns, with the token of that answer, never the expired token and never
\* an undefined value; the session holds the token and the expiry of the
\* refresh that wrote last.
C17_ConcurrentRefresh ==
    /\ \A c \in Callers :
          /\ SawExpiring(calls[c]) =>
                /\ calls[c].req \in 1..Len(reqs)
                /\ reqs[calls[c].req].kind = "refresh"
                /\ \A d \in Callers : d # c => calls[d].req # calls[c].req
          /\ calls[c].req # 0 /\ Answered(reqs[calls[c].req]) =>
                /\ calls[c].pc = "returned"
                /\ calls[c].token = reqs[calls[c].req].data.access_token
                /\ Truthy(calls[c].token)
                /\ calls[c].token # calls[c].seen.access_token
          /\ calls[c].pc = "returned" /\ calls[c].req # 0 => Answered(reqs[calls[c].req])
    /\ Writers # {} =>
          LET granted == reqs[calls[LastWriter].req].data
          IN  /\ session.access_token = granted.access_token
              /\ session.expires_in =
                    calls[LastWriter].wroteAt
                      + (IF granted.expires_in \in { NoNum, NullNum, 0 } THEN 3600
                         ELSE granted.expires_in) * 1000

\* two calls that both saw the expiring token have both refreshed and
\* returned different tokens; the session holds the token of the second
\* writer
C17_Witness ==
    /\ \A c \in { 1, 2 } :
          /\ SawExpiring(calls[c])
          /\ calls[c].seen.access_token = "tokA"
          /\ calls[c].pc = "returned"
    /\ calls[1].token # calls[2].token
    /\ \E c \in { 1, 2 } :
          /\ calls[c].order = 1
          /\ session.access_token # calls[c].token
          /\ session.access_token = calls[3 - c].token

---------------------------------------------------------------------------
(* Artist occurrence counts *)

\* the sum of the counts of a list, all of which are numbers
RECURSIVE SumCounts(_, _)
SumCounts(list, i) ==
    IF i > Len(list) THEN 0 ELSE list[i].count.num + SumCounts(list, i + 1)

\* the occurrence counts reported are those of the credits cs: each listed
\* name is the label of a credit of cs and its count the number of credits
\* of cs under that label, and while there are at most 10 labels every
\* label is listed and the counts add up to the number of credits of cs
CountsAreOf(ta, trs, cs) ==
    LET labels == { CreditLabel(CreditOf(trs, c)) : c \in cs }
    IN  /\ \A i \in 1..Len(ta) :
              /\ ta[i].name \in labels
              /\ ta[i].count =
                    Num(Cardinality({ c \in cs :
                                        CreditLabel(CreditOf(trs, c)) = ta[i].name }))
        /\ Cardinality(labels) <= TopN =>
              /\ labels = { ta[i].name : i \in 1..Len(ta) }
              /\ SumCounts(ta, 1) = Cardinality(cs)

\* C18: every artist credit of every track adds one to the count kept under
\* the artist's name, or the id when the name is absent, so that the counts
\* add up to the number of credits, credits with a name but no id included.
C18_EveryCreditCounted ==
    Succeeded => CountsAreOf(response.body.analysis.top_artists, tracks, Credits(tracks))

---------------------------------------------------------------------------
(* One credential per invocation *)

\* the positions of the data requests
DataRequests == { i \in 1..Len(reqs) : reqs[i].kind \in DataKinds }

\* C19: the credential is obtained once, before the first data request:
\* a refresh request is the first request and is answered before any data
\* request is issued, no refresh request follows a data request, and every
\* data request (metadata, track pages, feature batches, artist batches)
\* carries the one token obtained, which is the refreshed token after a
\* refresh and the stored token otherwise.
C19_OneTokenPerInvocation ==
    /\ \A i \in 1..Len(reqs) : reqs[i].kind = "refresh" => i = 1
    /\ DataRequests # {} =>
          /\ Truthy(token)
          /\ \A i \in DataRequests : reqs[i].token = token
          /\ token = session.access_token
          /\ IF reqs[1].kind = "refresh"
             THEN Answered(reqs[1]) /\ token = reqs[1].data.access_token
             ELSE token = "tokA"

\* a successful run on a valid stored token with three pages, three feature
\* batches and three artist batches, none of them preceded by a refresh
C19_Witness ==
    /\ Succeeded
    /\ reqs[1].kind = "metadata"
    /\ Len(RequestsOf("tracks")) >= 3
    /\ Len(RequestsOf("features")) >= 3
    /\ Len(RequestsOf("artists")) >= 3
    /\ \A i \in 1..Len(reqs) : reqs[i].token = "tokA"

---------------------------------------------------------------------------
(* Tracks without an artists list *)

\* C20: a retrieved track whose artists list is absent is tolerated: when
\* every request was answered and no artists response holds a null entry,
\* the analysis succeeds and the track counts toward total_tracks and
\* duration_ms.
C20_AbsentArtistsTolerated ==
    ( /\ pc = "done"
      /\ reqs # << >>
      /\ \A i \in 1..Len(reqs) : Answered(reqs[i])
      /\ \A i \in 1..Len(reqs) : reqs[i].kind = "artists" => ~HasNullEntry(reqs[i])
      /\ \E i \in 1..Len(tracks) : ~tracks[i].hasArtists )
    => /\ response.status = 200
       /\ response.body.playlist.total_tracks = Len(tracks)
       /\ response.body.playlist.duration_ms = SumDurations(tracks, 1, Len(tracks))

============================================================================
